---------------------------- MODULE Spec2Model ----------------------------
(***************************************************************************)
(* A model of the sheet2db ETL core: the field normalizers and validators *)
(* (etl/utils/validators.js), the record transformer and the logger       *)
(* (etl/transform.js, etl/utils/logger.js), the load/upsert engine        *)
(* (etl/load.js) and the orchestrator (etl/index.js).                     *)
(*                                                                         *)
(* JavaScript strings are sequences of one-character strings, so that     *)
(* lower-casing, trimming, splitting and the regular expressions are      *)
(* computed character by character, as the code computes them.            *)
(***************************************************************************)
EXTENDS Integers, Sequences, FiniteSets, TLC

(***************************************************************************)
(* JavaScript values                                                       *)
(***************************************************************************)
Undef == [t |-> "undefined", s |-> <<>>, n |-> 0]
Null == [t |-> "null", s |-> <<>>, n |-> 0]
Str(s) == [t |-> "string", s |-> s, n |-> 0]
Num(n) == [t |-> "number", s |-> <<>>, n |-> n]
\* a number that is not an integer: n its integer part, frac the digits after
\* the decimal point
NumFrac(n, frac) == [t |-> "number", s |-> frac, n |-> n]
\* a Date object, n = minutes since the epoch (UTC)
DateObj(n) == [t |-> "date", s |-> <<>>, n |-> n]
\* a function object (the value of an inherited property such as constructor)
Fn == [t |-> "function", s |-> <<>>, n |-> 0]
\* the outcome of an expression that raised a TypeError
Throw == [t |-> "throw", s |-> <<>>, n |-> 0]

IsStr(v) == v.t = "string"
IsNum(v) == v.t = "number"

\* ToBoolean: undefined, null, "" and 0 are falsy
Truthy(v) ==
    CASE v.t = "undefined" -> FALSE
      [] v.t = "null" -> FALSE
      [] v.t = "string" -> v.s # <<>>
      [] v.t = "number" -> v.n # 0 \/ v.s # <<>>
      [] OTHER -> TRUE

\* a || b
JsOr(a, b) == IF Truthy(a) THEN a ELSE b

(***************************************************************************)
(* Characters and strings                                                  *)
(***************************************************************************)
Digits == <<"0", "1", "2", "3", "4", "5", "6", "7", "8", "9">>
UpperLetters == <<"A", "B", "C", "D", "E", "F", "G", "H", "I", "J", "K", "L", "M",
                  "N", "O", "P", "Q", "R", "S", "T", "U", "V", "W", "X", "Y", "Z">>
LowerLetters == <<"a", "b", "c", "d", "e", "f", "g", "h", "i", "j", "k", "l", "m",
                  "n", "o", "p", "q", "r", "s", "t", "u", "v", "w", "x", "y", "z">>

IsDigit(c) == \E i \in 1..Len(Digits) : Digits[i] = c
DigitVal(c) == (CHOOSE i \in 1..Len(Digits) : Digits[i] = c) - 1
DigitChar(d) == Digits[d + 1]
\* \s of a JavaScript regular expression, and the characters trim() removes
IsSpace(c) == c \in {" ", "\t", "\n", "\r"}

ToLowerChar(c) ==
    IF \E i \in 1..Len(UpperLetters) : UpperLetters[i] = c
    THEN LowerLetters[CHOOSE i \in 1..Len(UpperLetters) : UpperLetters[i] = c]
    ELSE c
ToUpperChar(c) ==
    IF \E i \in 1..Len(LowerLetters) : LowerLetters[i] = c
    THEN UpperLetters[CHOOSE i \in 1..Len(LowerLetters) : LowerLetters[i] = c]
    ELSE c

\* String.prototype.toLowerCase / toUpperCase
ToLowerCase(s) == [i \in 1..Len(s) |-> ToLowerChar(s[i])]
ToUpperCase(s) == [i \in 1..Len(s) |-> ToUpperChar(s[i])]

\* String.prototype.trim
Trim(s) ==
    IF \A i \in 1..Len(s) : IsSpace(s[i]) THEN <<>>
    ELSE LET a == CHOOSE i \in 1..Len(s) :
                      /\ ~IsSpace(s[i])
                      /\ \A j \in 1..(i - 1) : IsSpace(s[j])
             b == CHOOSE i \in 1..Len(s) :
                      /\ ~IsSpace(s[i])
                      /\ \A j \in (i + 1)..Len(s) : IsSpace(s[j])
         IN SubSeq(s, a, b)

AllDigits(s) == \A i \in 1..Len(s) : IsDigit(s[i])

\* the characters of s that satisfy Keep, in order (replace(/[^...]/g, ''))
RECURSIVE FilterChars(_, _)
FilterChars(s, keep) ==
    IF s = <<>> THEN <<>>
    ELSE IF Head(s) \in keep THEN <<Head(s)>> \o FilterChars(Tail(s), keep)
         ELSE FilterChars(Tail(s), keep)

\* String.prototype.split with a one-character separator
RECURSIVE SplitOn(_, _)
SplitOn(s, sep) ==
    IF \A i \in 1..Len(s) : s[i] # sep THEN <<s>>
    ELSE LET k == CHOOSE i \in 1..Len(s) :
                      s[i] = sep /\ \A j \in 1..(i - 1) : s[j] # sep
         IN <<SubSeq(s, 1, k - 1)>> \o SplitOn(SubSeq(s, k + 1, Len(s)), sep)

\* String.prototype.split(/\s+/) of a trimmed, non-empty string
RECURSIVE SplitWhitespace(_)
SplitWhitespace(s) ==
    IF \A i \in 1..Len(s) : ~IsSpace(s[i]) THEN <<s>>
    ELSE LET k == CHOOSE i \in 1..Len(s) :
                      IsSpace(s[i]) /\ \A j \in 1..(i - 1) : ~IsSpace(s[j])
         IN <<SubSeq(s, 1, k - 1)>> \o SplitWhitespace(Trim(SubSeq(s, k, Len(s))))

\* Array.prototype.join(' ')
RECURSIVE JoinSpace(_)
JoinSpace(parts) ==
    IF parts = <<>> THEN <<>>
    ELSE IF Len(parts) = 1 THEN parts[1]
    ELSE parts[1] \o <<" ">> \o JoinSpace(Tail(parts))

\* String.prototype.padStart(n, '0')
RECURSIVE PadStart0(_, _)
PadStart0(s, n) == IF Len(s) >= n THEN s ELSE PadStart0(<<"0">> \o s, n)

\* the decimal value of a string of digits
RECURSIVE DigitsToNat(_)
DigitsToNat(s) ==
    IF s = <<>> THEN 0
    ELSE 10 * DigitsToNat(SubSeq(s, 1, Len(s) - 1)) + DigitVal(s[Len(s)])

\* the decimal digits of a natural number
RECURSIVE NatToDigits(_)
NatToDigits(n) ==
    IF n < 10 THEN <<DigitChar(n)>>
    ELSE NatToDigits(n \div 10) \o <<DigitChar(n % 10)>>

\* String(n) of an integer
NumToString(n) == IF n < 0 THEN <<"-">> \o NatToDigits(0 - n) ELSE NatToDigits(n)

(***************************************************************************)
(* Calendar arithmetic of the JavaScript Date object (proleptic Gregorian) *)
(***************************************************************************)
MinutesPerDay == 24 * 60

IsLeapYear(y) == (y % 4 = 0 /\ y % 100 # 0) \/ y % 400 = 0
DaysInMonth(y, m) ==
    IF m = 2 THEN (IF IsLeapYear(y) THEN 29 ELSE 28)
    ELSE IF m \in {4, 6, 9, 11} THEN 30 ELSE 31

\* days from 1970-01-01 to the civil date y-m-d (1 <= m <= 12, 1 <= d <= 31)
DaysFromCivil(y, m, d) ==
    LET yy == IF m <= 2 THEN y - 1 ELSE y
        era == yy \div 400
        yoe == yy - era * 400
        mp == IF m > 2 THEN m - 3 ELSE m + 9
        doy == (153 * mp + 2) \div 5 + d - 1
        doe == yoe * 365 + yoe \div 4 - yoe \div 100 + doy
    IN era * 146097 + doe - 719468

\* MakeDay(year, month, date): a date past the month's end rolls over
MakeDay(y, m, d) == DaysFromCivil(y, m, 1) + d - 1

\* the civil date <<y, m, d>> of a day number
CivilFromDays(z0) ==
    LET z == z0 + 719468
        era == z \div 146097
        doe == z - era * 146097
        yoe == (doe - doe \div 1460 + doe \div 36524 - doe \div 146096) \div 365
        doy == doe - (365 * yoe + yoe \div 4 - yoe \div 100)
        mp == (5 * doy + 2) \div 153
        d == doy - (153 * mp + 2) \div 5 + 1
        m == IF mp < 10 THEN mp + 3 ELSE mp - 9
        y == yoe + era * 400
    IN <<(IF m <= 2 THEN y + 1 ELSE y), m, d>>

\* a Date value: NaN (Invalid Date) or minutes since the epoch, UTC
InvalidDate == [nan |-> TRUE, min |-> 0]
ValidDate(minutes) == [nan |-> FALSE, min |-> minutes]

\* Date.prototype.toISOString().split('T')[0]
IsoDateOf(minutes) ==
    LET c == CivilFromDays(minutes \div MinutesPerDay)
        year == IF c[1] >= 0 /\ c[1] <= 9999 THEN PadStart0(NatToDigits(c[1]), 4)
                ELSE IF c[1] < 0 THEN <<"-">> \o PadStart0(NatToDigits(0 - c[1]), 6)
                ELSE <<"+">> \o PadStart0(NatToDigits(c[1]), 6)
    IN year \o <<"-">> \o PadStart0(NatToDigits(c[2]), 2)
            \o <<"-">> \o PadStart0(NatToDigits(c[3]), 2)

MonthNames == <<<<"J", "a", "n">>, <<"F", "e", "b">>, <<"M", "a", "r">>, <<"A", "p", "r">>, <<"M", "a", "y">>, <<"J", "u", "n">>, <<"J", "u", "l">>, <<"A", "u", "g">>, <<"S", "e", "p">>, <<"O", "c", "t">>, <<"N", "o", "v">>, <<"D", "e", "c">>>>

\* /^\d{4}-\d{2}-\d{2}/.test(s)
StartsWithIsoDate(s) ==
    /\ Len(s) >= 10
    /\ \A i \in {1, 2, 3, 4, 6, 7, 9, 10} : IsDigit(s[i])
    /\ s[5] = "-"
    /\ s[8] = "-"

\* /^\d{1,2}\/\d{1,2}\/\d{4}$/.test(s)
IsSlashDate(s) ==
    LET p == SplitOn(s, "/")
    IN /\ Len(p) = 3
       /\ Len(p[1]) \in {1, 2} /\ AllDigits(p[1])
       /\ Len(p[2]) \in {1, 2} /\ AllDigits(p[2])
       /\ Len(p[3]) = 4 /\ AllDigits(p[3])

\* "Mon D, YYYY" / "Mon DD, YYYY", the shape the legacy parser is used for
IsMonthNameDate(s) ==
    /\ Len(s) \in {11, 12}
    /\ \E k \in 1..12 : SubSeq(s, 1, 3) = MonthNames[k]
    /\ s[4] = " "
    /\ LET rest == SplitOn(SubSeq(s, 5, Len(s)), ",")
       IN /\ Len(rest) = 2
          /\ Len(rest[1]) \in {1, 2} /\ AllDigits(rest[1])
          /\ DigitsToNat(rest[1]) \in 1..31
          /\ Len(rest[2]) = 5 /\ rest[2][1] = " " /\ AllDigits(Tail(rest[2]))

\* new Date(s) of a string, in a process whose local time is UTC + tz minutes:
\*   YYYY-MM-DD              the date-only ISO form, midnight UTC
\*   YYYY-MM-DD HH:MM:SS     local time (legacy parser)
\*   Mon D, YYYY             local midnight (legacy parser)
\* and Invalid Date for the other strings of this model.
NewDateOfString(s, tz) ==
    IF StartsWithIsoDate(s) THEN
        LET y == DigitsToNat(SubSeq(s, 1, 4))
            m == DigitsToNat(SubSeq(s, 6, 7))
            d == DigitsToNat(SubSeq(s, 9, 10))
            okDay == m \in 1..12 /\ d \in 1..31
        IN IF ~okDay THEN InvalidDate
           ELSE IF Len(s) = 10 THEN ValidDate(MakeDay(y, m, d) * MinutesPerDay)
           ELSE IF /\ Len(s) = 19
                   /\ s[11] = " " /\ s[14] = ":" /\ s[17] = ":"
                   /\ \A i \in {12, 13, 15, 16, 18, 19} : IsDigit(s[i])
                   /\ DigitsToNat(SubSeq(s, 12, 13)) < 24
                   /\ DigitsToNat(SubSeq(s, 15, 16)) < 60
                   /\ DigitsToNat(SubSeq(s, 18, 19)) < 60
                THEN ValidDate(MakeDay(y, m, d) * MinutesPerDay
                               + 60 * DigitsToNat(SubSeq(s, 12, 13))
                               + DigitsToNat(SubSeq(s, 15, 16)) - tz)
           ELSE InvalidDate
    ELSE IF IsMonthNameDate(s) THEN
        LET m == CHOOSE k \in 1..12 : SubSeq(s, 1, 3) = MonthNames[k]
            rest == SplitOn(SubSeq(s, 5, Len(s)), ",")
            d == DigitsToNat(rest[1])
            y == DigitsToNat(Tail(rest[2]))
        IN ValidDate(MakeDay(y, m, d) * MinutesPerDay - tz)
    ELSE InvalidDate

\* new Date(v) of a JavaScript value
NewDate(v, tz) ==
    CASE v.t = "string" -> NewDateOfString(v.s, tz)
      [] v.t = "number" -> ValidDate(v.n \div 60000)
      [] v.t = "date" -> ValidDate(v.n)
      [] v.t = "null" -> ValidDate(0)
      [] OTHER -> InvalidDate

(***************************************************************************)
(* etl/utils/validators.js                                                 *)
(***************************************************************************)
\* EMAIL_REGEX = /^[^\s@]+@[^\s@]+\.[^\s@]+$/
EmailChar(c) == ~IsSpace(c) /\ c # "@"
EMAIL_REGEX(s) ==
    \E i \in 2..Len(s) : \E j \in (i + 2)..(Len(s) - 1) :
        /\ s[i] = "@"
        /\ s[j] = "."
        /\ \A k \in 1..(i - 1) : EmailChar(s[k])
        /\ \A k \in (i + 1)..(j - 1) : EmailChar(s[k])
        /\ \A k \in (j + 1)..Len(s) : EmailChar(s[k])

\* PHONE_REGEX = /^[0-9+ -]{7,20}$/
PhoneChars == {Digits[i] : i \in 1..Len(Digits)} \cup {"+", " ", "-"}
PHONE_REGEX(s) ==
    /\ Len(s) >= 7
    /\ Len(s) <= 20
    /\ \A i \in 1..Len(s) : s[i] \in PhoneChars

isValidEmail(email) ==
    IF ~Truthy(email) \/ ~IsStr(email) THEN FALSE
    ELSE EMAIL_REGEX(Trim(email.s))

\* normalizeEmail without the toLowerCase()
normalizeEmailTrimOnly(email) ==
    IF ~Truthy(email) THEN Null
    ELSE IF ~IsStr(email) THEN Throw
    ELSE Str(Trim(email.s))

normalizeEmail(email) ==
    IF ~Truthy(email) THEN Null
    ELSE IF ~IsStr(email) THEN Throw
    ELSE Str(Trim(ToLowerCase(email.s)))

\* parseInt(v, 10): [nan, v]
NaN == [nan |-> TRUE, v |-> 0]
ParseIntOfString(s0) ==
    LET s == IF \A i \in 1..Len(s0) : IsSpace(s0[i]) THEN <<>>
             ELSE SubSeq(s0, CHOOSE i \in 1..Len(s0) :
                                 ~IsSpace(s0[i]) /\ \A j \in 1..(i - 1) : IsSpace(s0[j]),
                         Len(s0))
        neg == s # <<>> /\ s[1] = "-"
        body == IF s # <<>> /\ s[1] \in {"+", "-"} THEN Tail(s) ELSE s
        n == IF \A i \in 1..Len(body) : IsDigit(body[i]) THEN Len(body)
             ELSE (CHOOSE i \in 1..Len(body) :
                       ~IsDigit(body[i]) /\ \A j \in 1..(i - 1) : IsDigit(body[j])) - 1
    IN IF n = 0 THEN NaN
       ELSE [nan |-> FALSE,
             v |-> IF neg THEN 0 - DigitsToNat(SubSeq(body, 1, n))
                   ELSE DigitsToNat(SubSeq(body, 1, n))]
ParseInt(v) ==
    CASE v.t = "string" -> ParseIntOfString(v.s)
      [] v.t = "number" -> [nan |-> FALSE, v |-> v.n]
      [] OTHER -> NaN

isValidYear(year) ==
    LET parsed == ParseInt(year)
    IN ~parsed.nan /\ parsed.v >= 1 /\ parsed.v <= 4

\* String(v) as parseYear and the regular expressions see it
JsToString(v) ==
    CASE v.t = "string" -> v.s
      [] v.t = "number" -> NumToString(v.n) \o (IF v.s = <<>> THEN <<>> ELSE <<".">> \o v.s)
      [] v.t = "undefined" -> <<"u", "n", "d", "e", "f", "i", "n", "e", "d">>
      [] v.t = "null" -> <<"n", "u", "l", "l">>
      [] v.t = "function" -> <<"f", "u", "n", "c", "t", "i", "o", "n", " ", "(", ")">>
      [] OTHER -> <<"[", "D", "a", "t", "e", "]">>

\* some of the properties every plain object inherits from Object.prototype
ObjectPrototypeKeys == {<<"c", "o", "n", "s", "t", "r", "u", "c", "t", "o", "r">>,
                        <<"t", "o", "S", "t", "r", "i", "n", "g">>,
                        <<"v", "a", "l", "u", "e", "O", "f">>}

wordMap == <<
    <<<<"o", "n", "e">>, 1>>,
    <<<<"f", "i", "r", "s", "t">>, 1>>,
    <<<<"1", "s", "t">>, 1>>,
    <<<<"t", "w", "o">>, 2>>,
    <<<<"s", "e", "c", "o", "n", "d">>, 2>>,
    <<<<"2", "n", "d">>, 2>>,
    <<<<"t", "h", "r", "e", "e">>, 3>>,
    <<<<"t", "h", "i", "r", "d">>, 3>>,
    <<<<"3", "r", "d">>, 3>>,
    <<<<"f", "o", "u", "r">>, 4>>,
    <<<<"f", "o", "u", "r", "t", "h">>, 4>>,
    <<<<"4", "t", "h">>, 4>>>>

parseYear(year) ==
    IF IsNum(year) THEN year
    ELSE LET parsed == ParseInt(year)
             lower == Trim(ToLowerCase(JsToString(year)))
         IN IF ~parsed.nan THEN Num(parsed.v)
            ELSE IF \E i \in 1..Len(wordMap) : wordMap[i][1] = lower
            THEN Num(wordMap[CHOOSE i \in 1..Len(wordMap) : wordMap[i][1] = lower][2])
            ELSE IF lower \in ObjectPrototypeKeys THEN Fn
            ELSE Null

DEPARTMENT_MAP == <<
    <<<<"c", "o", "m", "p", "u", "t", "e", "r", " ", "s", "c", "i", "e", "n", "c", "e">>,
      <<"C", "o", "m", "p", "u", "t", "e", "r", " ", "S", "c", "i", "e", "n", "c", "e">>>>,
    <<<<"c", "s">>,
      <<"C", "o", "m", "p", "u", "t", "e", "r", " ", "S", "c", "i", "e", "n", "c", "e">>>>,
    <<<<"c", "o", "m", "p", " ", "s", "c", "i">>,
      <<"C", "o", "m", "p", "u", "t", "e", "r", " ", "S", "c", "i", "e", "n", "c", "e">>>>,
    <<<<"c", "o", "m", "p", ".", " ", "s", "c", "i", ".">>,
      <<"C", "o", "m", "p", "u", "t", "e", "r", " ", "S", "c", "i", "e", "n", "c", "e">>>>,
    <<<<"c", "s", "e">>,
      <<"C", "o", "m", "p", "u", "t", "e", "r", " ", "S", "c", "i", "e", "n", "c", "e">>>>,
    <<<<"e", "l", "e", "c", "t", "r", "o", "n", "i", "c", "s">>,
      <<"E", "l", "e", "c", "t", "r", "o", "n", "i", "c", "s">>>>,
    <<<<"e", "c", "e">>,
      <<"E", "l", "e", "c", "t", "r", "o", "n", "i", "c", "s">>>>,
    <<<<"e", "c">>,
      <<"E", "l", "e", "c", "t", "r", "o", "n", "i", "c", "s">>>>,
    <<<<"m", "e", "c", "h", "a", "n", "i", "c", "a", "l">>,
      <<"M", "e", "c", "h", "a", "n", "i", "c", "a", "l">>>>,
    <<<<"m", "e", "c", "h">>,
      <<"M", "e", "c", "h", "a", "n", "i", "c", "a", "l">>>>,
    <<<<"m", "e">>,
      <<"M", "e", "c", "h", "a", "n", "i", "c", "a", "l">>>>,
    <<<<"e", "l", "e", "c", "t", "r", "i", "c", "a", "l", " ", "e", "n", "g", "i", "n", "e", "e", "r", "i", "n", "g">>,
      <<"E", "l", "e", "c", "t", "r", "i", "c", "a", "l", " ", "E", "n", "g", "i", "n", "e", "e", "r", "i", "n", "g">>>>,
    <<<<"e", "l", "e", "c", "t", "r", "i", "c", "a", "l">>,
      <<"E", "l", "e", "c", "t", "r", "i", "c", "a", "l", " ", "E", "n", "g", "i", "n", "e", "e", "r", "i", "n", "g">>>>,
    <<<<"e", "e">>,
      <<"E", "l", "e", "c", "t", "r", "i", "c", "a", "l", " ", "E", "n", "g", "i", "n", "e", "e", "r", "i", "n", "g">>>>,
    <<<<"e", "e", "e">>,
      <<"E", "l", "e", "c", "t", "r", "i", "c", "a", "l", " ", "E", "n", "g", "i", "n", "e", "e", "r", "i", "n", "g">>>>>>

standardizeDepartment(dept) ==
    IF ~Truthy(dept) \/ ~IsStr(dept) THEN Null
    ELSE LET normalized == Trim(ToLowerCase(dept.s))
         IN IF \E i \in 1..Len(DEPARTMENT_MAP) : DEPARTMENT_MAP[i][1] = normalized
            THEN Str(DEPARTMENT_MAP[CHOOSE i \in 1..Len(DEPARTMENT_MAP) :
                                        DEPARTMENT_MAP[i][1] = normalized][2])
            ELSE IF normalized \in ObjectPrototypeKeys THEN Fn
            ELSE Null

validGrades == {<<"A">>, <<"A", "-">>, <<"B">>, <<"B", "-">>,
                <<"C">>, <<"C", "-">>, <<"D">>, <<"F">>}

\* isValidGrade with the plus grades in the list
isValidGradeWithPlus(grade) ==
    IF ~Truthy(grade) THEN TRUE
    ELSE Trim(ToUpperCase(grade.s))
            \in validGrades \cup {<<"A", "+">>, <<"B", "+">>, <<"C", "+">>, <<"D", "+">>}

\* called with the result of cleanString: a string or null
isValidGrade(grade) ==
    IF ~Truthy(grade) THEN TRUE
    ELSE Trim(ToUpperCase(grade.s)) \in validGrades

\* parseDate without the padStart(2, '0') of the slash form
parseDateUnpadded(dateStr, tz) ==
    IF ~Truthy(dateStr) THEN Null
    ELSE IF StartsWithIsoDate(JsToString(dateStr)) THEN
        (IF IsStr(dateStr) THEN Str(SplitOn(dateStr.s, "T")[1]) ELSE Throw)
    ELSE IF IsSlashDate(JsToString(dateStr)) THEN
        (IF IsStr(dateStr)
         THEN LET p == SplitOn(dateStr.s, "/")
              IN Str(p[3] \o <<"-">> \o p[2] \o <<"-">> \o p[1])
         ELSE Throw)
    ELSE LET parsed == NewDate(dateStr, tz)
         IN IF ~parsed.nan THEN Str(IsoDateOf(parsed.min)) ELSE Null

parseDate(dateStr, tz) ==
    IF ~Truthy(dateStr) THEN Null
    ELSE IF StartsWithIsoDate(JsToString(dateStr)) THEN
        (IF IsStr(dateStr) THEN Str(SplitOn(dateStr.s, "T")[1]) ELSE Throw)
    ELSE IF IsSlashDate(JsToString(dateStr)) THEN
        (IF IsStr(dateStr)
         THEN LET p == SplitOn(dateStr.s, "/")
              IN Str(p[3] \o <<"-">> \o PadStart0(p[2], 2) \o <<"-">> \o PadStart0(p[1], 2))
         ELSE Throw)
    ELSE LET parsed == NewDate(dateStr, tz)
         IN IF ~parsed.nan THEN Str(IsoDateOf(parsed.min)) ELSE Null

\* today = <<year, month, day>>, the local calendar date of the process
isValidDateOfBirth(dob, today, tz) ==
    IF ~Truthy(dob) THEN FALSE
    ELSE LET dobDate == NewDate(dob, tz)
             minDate == MakeDay(today[1] - 16, today[2], today[3]) * MinutesPerDay - tz
         IN IF dobDate.nan THEN FALSE ELSE dobDate.min <= minDate

isValidPhoneNumber(phone) ==
    IF ~Truthy(phone) \/ ~IsStr(phone) THEN FALSE
    ELSE PHONE_REGEX(Trim(phone.s))

normalizePhoneNumber(phone) ==
    IF ~Truthy(phone) THEN Null
    ELSE IF ~IsStr(phone) THEN Throw
    ELSE LET cleaned == Trim(FilterChars(phone.s, PhoneChars))
             digitsOnly == FilterChars(cleaned, {Digits[i] : i \in 1..Len(Digits)})
         IN IF Len(digitsOnly) = 10
            THEN Str(<<"+", "9", "1", "-">> \o digitsOnly)
            ELSE Str(cleaned)

cleanString(str) ==
    IF ~Truthy(str) \/ ~IsStr(str) THEN Null
    ELSE Str(Trim(str.s))

parseName(fullName) ==
    IF ~Truthy(fullName) \/ ~IsStr(fullName)
    THEN [firstName |-> Null, lastName |-> Null]
    ELSE LET parts == IF Trim(fullName.s) = <<>> THEN <<(<<>>)>>
                      ELSE SplitWhitespace(Trim(fullName.s))
         IN IF Len(parts) = 1
            THEN [firstName |-> Str(parts[1]), lastName |-> Str(<<>>)]
            ELSE [firstName |-> Str(parts[1]), lastName |-> Str(JoinSpace(Tail(parts)))]

(***************************************************************************)
(* State                                                                   *)
(***************************************************************************)
VARIABLES
    entry,            \* the function the behaviour is an execution of
    pc,               \* its position
    today,            \* the local calendar date of the process, <<y, m, d>>
    tz,               \* its offset from UTC, in minutes
    rawStudents,      \* the students batch (rawData.students)
    rawEnrollments,   \* the enrollments batch (rawData.enrollments)
    departmentMap,    \* DepartmentLookup: canonical name -> department_id
    courseSet,        \* CourseSet
    studentMap,       \* StudentLookup: email -> student_id
    i,                \* the index of the record the running loop is at
    cleanStudents,    \* transformStudents' transformed list
    seenEmails,       \* transformStudents' seenEmails
    cleanEnrollments, \* transformEnrollments' transformed list
    seenCombos,       \* transformEnrollments' seenCombos
    logs,             \* logger.logs, the WARN and ERROR entries
    stats,            \* logger.stats
    db,               \* the store: its tables and sequences
    loaded,           \* the local counter of the running load function
    studentWrites,    \* history: per student handed to loadStudents, did its
                      \* write succeed
    enrollmentWrites, \* history: the same for loadEnrollments
    pool,             \* load.js' pool: "none", "open" or "ended"
    result,           \* how the entry function ended: "none", "returned", "thrown"
    summaries,        \* the number of logger.summary() calls
    dateIn,           \* parseDate's argument
    dateOut,          \* parseDate's results: <<parseDate(d), parseDate(parseDate(d))>>
    verdict,          \* what a validator called on its own returned ("none": not yet)
    api,              \* POST /api/students: the configured key and, per
                      \* request, the handler's locals, position and response
    sheet,            \* the Students sheet: per row, its Status and Error cells
    runs,             \* the CSV files as they are on disk, and history: the
                      \* store at the end of each earlier run on them
    mails,            \* history: the MailApp.sendEmail calls of the Apps Script
    sync,             \* etl/task7/incremental.js: the records, syncId and
                      \* outcome of the running upsertHappinessData call
    triggers          \* the handleEdit invocations of the Apps Script: per
                      \* invocation, its row, record, position and request

vars == <<entry, pc, today, tz, rawStudents, rawEnrollments, departmentMap,
          courseSet, studentMap, i, cleanStudents, seenEmails, cleanEnrollments,
          seenCombos, logs, stats, db, loaded, studentWrites, enrollmentWrites,
          pool, result, summaries, dateIn, dateOut, verdict, api, sheet, runs,
          mails, sync, triggers>>

\* no file read and no run ended; no upsertHappinessData call
NoRuns == [files |-> [students |-> <<>>, enrollments |-> <<>>], ended |-> <<>>]
NoSync ==
    [records |-> <<>>, pc |-> "none", syncId |-> 0, processed |-> 0, error |-> "",
     thrown |-> "", returned |-> -1, log |-> <<>>, table |-> {}, clock |-> 0,
     lastSync |-> 0, upserts |-> <<>>]

(***************************************************************************)
(* etl/utils/logger.js                                                     *)
(***************************************************************************)
\* new Logger()
NewStats == [extracted |-> 0, transformed |-> 0, loaded |-> 0, skipped |-> 0,
             errors |-> <<>>]

\* logger.warn(message, row): one WARN entry, stats.skipped++.  ref is the
\* position in its batch of the object row refers to (0: no row given).
LoggerWarnEntry(message, row, ref) ==
    [level |-> "WARN", message |-> message, row |-> row, ref |-> ref]
LoggerWarnStats(st) == [st EXCEPT !.skipped = @ + 1]

\* logger.error(message, error): one ERROR entry, stats.errors.push
LoggerErrorEntry(message) ==
    [level |-> "ERROR", message |-> message, row |-> Null, ref |-> 0]
LoggerErrorStats(st, message) == [st EXCEPT !.errors = Append(@, message)]

(***************************************************************************)
(* etl/transform.js: transformStudents                                     *)
(***************************************************************************)
\* departmentMap[name] of the plain object getDepartmentMap builds
Lookup(map, key) ==
    IF key \in DOMAIN map THEN Num(map[key])
    ELSE IF key \in ObjectPrototypeKeys THEN Fn
    ELSE Undef

\* seenEmails.has(email) and seenEmails.add(email)
SeenEmailsHas(seen, email) == email.s \in seen
SeenEmailsAdd(seen, email) == seen \cup {email.s}

\* step 9: first and last name from whichever shape is present
ResolveName(student) ==
    IF Truthy(student.first_name) /\ Truthy(student.last_name)
    THEN [ok |-> TRUE, firstName |-> cleanString(student.first_name),
          lastName |-> cleanString(student.last_name)]
    ELSE IF Truthy(student.firstName) /\ Truthy(student.lastName)
    THEN [ok |-> TRUE, firstName |-> cleanString(student.firstName),
          lastName |-> cleanString(student.lastName)]
    ELSE IF Truthy(student.name)
    THEN [ok |-> TRUE, firstName |-> parseName(student.name).firstName,
          lastName |-> parseName(student.name).lastName]
    ELSE [ok |-> FALSE, firstName |-> Null, lastName |-> Null]

\* The loop body with the name resolved and checked before the e-mail
StudentIterationNameFirst(student, seen, deptMap, now, offset) ==
    LET emailRaw == JsOr(student.email, student.student_email)
        email == normalizeEmail(emailRaw)
        yearRaw == JsOr(student.year, student.student_year)
        year == parseYear(yearRaw)
        dobRaw == JsOr(JsOr(student.date_of_birth, student.dateOfBirth),
                       student.student_date_of_birth)
        dob == parseDate(dobRaw, offset)
        phoneRaw == JsOr(JsOr(student.phone_number, student.phoneNumber),
                         student.student_phone_number)
        phone == normalizePhoneNumber(phoneRaw)
        departmentRaw == JsOr(student.department, student.department_name)
        department == standardizeDepartment(departmentRaw)
        departmentId == Lookup(deptMap, JsToString(department))
        seen2 == SeenEmailsAdd(seen, email)
        names == ResolveName(student)
        Warn(m, s) == [kind |-> "warn", message |-> m, out |-> Null, seen |-> s]
    IN IF ~names.ok
       THEN Warn("Missing name", seen)
       ELSE IF ~Truthy(names.firstName)
       THEN Warn("Missing first name", seen)
       ELSE IF email = Throw
       THEN [kind |-> "throw", message |-> "TypeError", out |-> Null, seen |-> seen]
       ELSE IF ~Truthy(email) \/ ~isValidEmail(email)
       THEN Warn("Invalid or missing email", seen)
       ELSE IF SeenEmailsHas(seen, email)
       THEN Warn("Duplicate email", seen)
       ELSE IF ~Truthy(year) \/ ~isValidYear(year)
       THEN Warn("Invalid year", seen2)
       ELSE IF dob = Throw
       THEN [kind |-> "throw", message |-> "TypeError", out |-> Null, seen |-> seen2]
       ELSE IF ~Truthy(dob) \/ ~isValidDateOfBirth(dob, now, offset)
       THEN Warn("Invalid DOB or student under 16", seen2)
       ELSE IF phone = Throw
       THEN [kind |-> "throw", message |-> "TypeError", out |-> Null, seen |-> seen2]
       ELSE IF ~Truthy(phone) \/ ~isValidPhoneNumber(phone)
       THEN Warn("Invalid phone number", seen2)
       ELSE IF ~Truthy(department)
       THEN Warn("Unknown department", seen2)
       ELSE IF ~Truthy(departmentId)
       THEN Warn("Department not in database", seen2)
       ELSE [kind |-> "emit", message |-> "", seen |-> seen2,
             out |-> [student_first_name |-> names.firstName,
                      student_last_name |-> JsOr(names.lastName, Str(<<>>)),
                      student_email |-> email,
                      student_date_of_birth |-> dob,
                      student_year |-> year,
                      student_phone_number |-> phone,
                      department_id |-> departmentId]]

\* The body of the for loop for one record, given the seenEmails set so far:
\*   kind "emit": out is the canonical student pushed to transformed
\*   kind "warn": message is the reason of the logger.warn before continue
\*   kind "throw": a normalizer raised a TypeError
\* seen is seenEmails after the iteration.
StudentIteration(student, seen, deptMap, now, offset) ==
    LET emailRaw == JsOr(student.email, student.student_email)
        email == normalizeEmail(emailRaw)
        yearRaw == JsOr(student.year, student.student_year)
        year == parseYear(yearRaw)
        dobRaw == JsOr(JsOr(student.date_of_birth, student.dateOfBirth),
                       student.student_date_of_birth)
        dob == parseDate(dobRaw, offset)
        phoneRaw == JsOr(JsOr(student.phone_number, student.phoneNumber),
                         student.student_phone_number)
        phone == normalizePhoneNumber(phoneRaw)
        departmentRaw == JsOr(student.department, student.department_name)
        department == standardizeDepartment(departmentRaw)
        departmentId == Lookup(deptMap, JsToString(department))
        seen2 == SeenEmailsAdd(seen, email)
        names == ResolveName(student)
        Warn(m, s) == [kind |-> "warn", message |-> m, out |-> Null, seen |-> s]
    IN IF email = Throw
       THEN [kind |-> "throw", message |-> "TypeError", out |-> Null, seen |-> seen]
       ELSE IF ~Truthy(email) \/ ~isValidEmail(email)
       THEN Warn("Invalid or missing email", seen)
       ELSE IF SeenEmailsHas(seen, email)
       THEN Warn("Duplicate email", seen)
       ELSE IF ~Truthy(year) \/ ~isValidYear(year)
       THEN Warn("Invalid year", seen2)
       ELSE IF dob = Throw
       THEN [kind |-> "throw", message |-> "TypeError", out |-> Null, seen |-> seen2]
       ELSE IF ~Truthy(dob) \/ ~isValidDateOfBirth(dob, now, offset)
       THEN Warn("Invalid DOB or student under 16", seen2)
       ELSE IF phone = Throw
       THEN [kind |-> "throw", message |-> "TypeError", out |-> Null, seen |-> seen2]
       ELSE IF ~Truthy(phone) \/ ~isValidPhoneNumber(phone)
       THEN Warn("Invalid phone number", seen2)
       ELSE IF ~Truthy(department)
       THEN Warn("Unknown department", seen2)
       ELSE IF ~Truthy(departmentId)
       THEN Warn("Department not in database", seen2)
       ELSE IF ~names.ok
       THEN Warn("Missing name", seen2)
       ELSE IF ~Truthy(names.firstName)
       THEN Warn("Missing first name", seen2)
       ELSE [kind |-> "emit", message |-> "", seen |-> seen2,
             out |-> [student_first_name |-> names.firstName,
                      student_last_name |-> JsOr(names.lastName, Str(<<>>)),
                      student_email |-> email,
                      student_date_of_birth |-> dob,
                      student_year |-> year,
                      student_phone_number |-> phone,
                      department_id |-> departmentId]]

(***************************************************************************)
(* etl/transform.js: transformEnrollments                                  *)
(***************************************************************************)
\* studentMap[email]: the property key of null is the string "null"
StudentLookup(map, email) == Lookup(map, JsToString(email))

\* `${studentId}-${courseId}`
Combo(studentId, courseId) == JsToString(studentId) \o <<"-">> \o courseId.s

\* seenCombos.has(combo) and seenCombos.add(combo)
SeenCombosHas(seen, combo) == combo \in seen
SeenCombosAdd(seen, combo) == seen \cup {combo}

\* The body of the for loop for one record, given seenCombos so far.
EnrollmentIteration(enrollment, seen, stMap, courses, offset) ==
    LET email == normalizeEmail(enrollment.student_email)
        studentId == StudentLookup(stMap, email)
        courseId == cleanString(enrollment.course_code)
        combo == Combo(studentId, courseId)
        seen2 == SeenCombosAdd(seen, combo)
        grade == cleanString(enrollment.grade)
        enrollmentDate == parseDate(enrollment.enrollment_date, offset)
        Warn(m, s) == [kind |-> "warn", message |-> m, out |-> Null, seen |-> s]
    IN IF email = Throw
       THEN [kind |-> "throw", message |-> "TypeError", out |-> Null, seen |-> seen]
       ELSE IF ~Truthy(studentId)
       THEN Warn("Student not found", seen)
       ELSE IF ~Truthy(courseId) \/ courseId.s \notin courses
       THEN Warn("Course not found", seen)
       ELSE IF SeenCombosHas(seen, combo)
       THEN Warn("Duplicate enrollment", seen)
       ELSE IF Truthy(grade) /\ ~isValidGrade(grade)
       THEN Warn("Invalid grade", seen2)
       ELSE IF enrollmentDate = Throw
       THEN [kind |-> "throw", message |-> "TypeError", out |-> Null, seen |-> seen2]
       ELSE IF ~Truthy(enrollmentDate)
       THEN Warn("Invalid or missing enrollment date", seen2)
       ELSE [kind |-> "emit", message |-> "", seen |-> seen2,
             out |-> [student_id |-> studentId,
                      course_id |-> courseId,
                      grade |-> IF Truthy(grade) THEN Str(ToUpperCase(grade.s)) ELSE Null,
                      enrollment_date |-> enrollmentDate]]

(***************************************************************************)
(* Input records                                                           *)
(***************************************************************************)
\* a raw student row with every field missing
BlankStudent ==
    [student_id |-> Undef, email |-> Undef, student_email |-> Undef,
     year |-> Undef, student_year |-> Undef,
     date_of_birth |-> Undef, dateOfBirth |-> Undef, student_date_of_birth |-> Undef,
     phone_number |-> Undef, phoneNumber |-> Undef, student_phone_number |-> Undef,
     department |-> Undef, department_name |-> Undef,
     first_name |-> Undef, last_name |-> Undef,
     firstName |-> Undef, lastName |-> Undef, name |-> Undef]

\* CSV shape, admissible
StudentA ==
    [BlankStudent EXCEPT !.first_name = Str(<<"A", "l", " ">>), !.last_name = Str(<<"R", "o", "y">>),
        !.email = Str(<<"a", "@", "x", ".", "i", "o">>), !.year = Str(<<"t", "h", "r", "e", "e">>), !.date_of_birth = Str(<<"2", "0", "0", "4", "-", "0", "7", "-", "1", "5">>),
        !.phone_number = Str(<<"9", "8", "7", "6", "5", "4", "3", "2", "1", "0">>), !.department = Str(<<"C", "S">>)]
\* Apps Script shape, admissible; the e-mail of StudentA in another case
StudentA2 ==
    [BlankStudent EXCEPT !.firstName = Str(<<"A", "l", "m", "a">>), !.lastName = Str(<<"R", "a", "y">>),
        !.email = Str(<<" ", "A", "@", "X", ".", "I", "O", " ">>), !.year = Num(2), !.dateOfBirth = Str(<<"1", "5", "/", "0", "7", "/", "2", "0", "0", "4">>),
        !.phoneNumber = Str(<<"(", "5", "5", "5", ")", " ", "1", "2", "3", "-", "4", "5", "6", "7">>), !.department = Str(<<" ", "e", "c", "e">>)]
\* the e-mail of StudentA, a year out of range
StudentABadYear ==
    [StudentA EXCEPT !.year = Str(<<"5">>)]
\* full-name shape, admissible, another e-mail
StudentB ==
    [BlankStudent EXCEPT !.name = Str(<<"B", "o", " ", " ", "L", "i", " ", "W", "u">>), !.student_email = Str(<<"b", "@", "x", ".", "i", "o">>),
        !.student_year = Str(<<"1", "s", "t">>), !.student_date_of_birth = Str(<<"2", "0", "0", "1", "-", "0", "2", "-", "2", "8", "T", "1", "0", ":", "3", "0", ":", "0", "0", "Z">>),
        !.student_phone_number = Str(<<"+", "4", "4", " ", "2", "0", " ", "7", "9", "4", "6">>), !.department_name = Str(<<"m", "e", "c", "h">>)]
\* no name, a malformed e-mail, an under-16 date of birth, an unknown department
StudentBad ==
    [BlankStudent EXCEPT !.email = Str(<<"a", "@", "x">>), !.year = Str(<<"t", "h", "r", "e", "e">>),
        !.date_of_birth = Str(<<"2", "0", "1", "5", "-", "0", "1", "-", "0", "1">>), !.phone_number = Str(<<"9", "8", "7", "6", "5", "4", "3", "2", "1", "0">>),
        !.department = Str(<<"B", "a", "s", "k", "e", "t", " ", "W", "e", "a", "v", "i", "n", "g">>)]
\* no name, a year out of range and a department that has no row in the store
StudentNoName ==
    [BlankStudent EXCEPT !.email = Str(<<"c", "@", "x", ".", "i", "o">>), !.year = Str(<<"5">>),
        !.date_of_birth = Str(<<"2", "0", "0", "4", "-", "0", "7", "-", "1", "5">>), !.phone_number = Str(<<"9", "8", "7", "6", "5", "4", "3", "2", "1", "0">>),
        !.department = Str(<<"e", "e">>)]
\* an e-mail cell holding a number
StudentNumEmail ==
    [StudentA EXCEPT !.email = Num(42)]
\* a phone cell holding a number
StudentNumPhone ==
    [StudentB EXCEPT !.student_phone_number = Num(5551234)]

\* StudentA with the department "constructor"
StudentDeptConstructor ==
    [StudentA EXCEPT !.department = Str(<<"c", "o", "n", "s", "t", "r", "u", "c", "t", "o", "r">>)]

\* StudentA with an empty last_name cell
StudentFirstOnly ==
    [StudentA EXCEPT !.last_name = Str(<<>>)]

\* StudentA2 with the number 2.5 in the year cell
StudentYearFraction ==
    [StudentA2 EXCEPT !.year = NumFrac(2, <<"5">>)]

StudentTemplates ==
    {StudentA, StudentA2, StudentABadYear, StudentB, StudentBad, StudentNoName,
     StudentNumEmail, StudentNumPhone, StudentDeptConstructor, StudentFirstOnly,
     StudentYearFraction}

BlankEnrollment ==
    [enrollment_id |-> Undef, student_email |-> Undef, course_code |-> Undef,
     grade |-> Undef, enrollment_date |-> Undef]

EnrollA ==
    [BlankEnrollment EXCEPT !.student_email = Str(<<"a", "@", "x", ".", "i", "o">>), !.course_code = Str(<<"C", "S", "1", "0", "1">>),
        !.grade = Str(<<"B">>), !.enrollment_date = Str(<<"2", "0", "2", "4", "-", "0", "1", "-", "1", "5">>)]
\* EnrollA with the grade B+
EnrollABPlus ==
    [EnrollA EXCEPT !.grade = Str(<<"B", "+">>)]
\* the student and course of EnrollA, written differently, ungraded
EnrollA2 ==
    [BlankEnrollment EXCEPT !.student_email = Str(<<" ", "A", "@", "X", ".", "I", "O", " ">>), !.course_code = Str(<<" ", "C", "S", "1", "0", "1", " ">>),
        !.enrollment_date = Str(<<"5", "/", "1", "/", "2", "0", "2", "4">>)]
\* month 13, day 45
EnrollBBadDate ==
    [BlankEnrollment EXCEPT !.student_email = Str(<<"b", "@", "x", ".", "i", "o">>), !.course_code = Str(<<"E", "E", "2", "0", "1">>),
        !.grade = Str(<<"a", "-">>), !.enrollment_date = Str(<<"2", "0", "2", "4", "-", "1", "3", "-", "4", "5">>)]
\* a student e-mail that is in no lookup
EnrollOrphan ==
    [EnrollA EXCEPT !.student_email = Str(<<"z", "@", "x", ".", "i", "o">>)]
\* a course code that is not in the course table, no date
EnrollNoCourse ==
    [BlankEnrollment EXCEPT !.student_email = Str(<<"b", "@", "x", ".", "i", "o">>), !.course_code = Str(<<"X", "X", "9", "9", "9">>)]
\* a student e-mail cell holding a number
EnrollNumEmail ==
    [EnrollA EXCEPT !.student_email = Num(7)]

\* a student e-mail cell holding the name of a property every object inherits
EnrollConstructor ==
    [EnrollA EXCEPT !.student_email = Str(<<"c", "o", "n", "s", "t", "r", "u", "c", "t", "o", "r">>)]

EnrollmentTemplates ==
    {EnrollA, EnrollABPlus, EnrollA2, EnrollBBadDate, EnrollOrphan, EnrollNoCourse,
     EnrollNumEmail, EnrollConstructor}

\* the sequences over S of length at most n
SeqsUpTo(S, n) == UNION {[1..k -> S] : k \in 0..n}

(***************************************************************************)
(* Reference data of the store (sql/seed.sql)                              *)
(***************************************************************************)
ComputerScience == <<"C", "o", "m", "p", "u", "t", "e", "r", " ", "S", "c", "i", "e", "n", "c", "e">>
Electronics == <<"E", "l", "e", "c", "t", "r", "o", "n", "i", "c", "s">>
Mechanical == <<"M", "e", "c", "h", "a", "n", "i", "c", "a", "l">>
CS101 == <<"C", "S", "1", "0", "1">>
EE201 == <<"E", "E", "2", "0", "1">>
EmailA == <<"a", "@", "x", ".", "i", "o">>
EmailB == <<"b", "@", "x", ".", "i", "o">>

\* the department table as getDepartmentMap returns it; Electrical Engineering
\* has no row
SeedDepartmentMap == (ComputerScience :> 1) @@ (Electronics :> 2) @@ (Mechanical :> 3)
SeedCourseSet == {CS101, EE201}
SeedStudentMap == (EmailA :> 1) @@ (EmailB :> 2)

(***************************************************************************)
(* The store: sql/task7_procedures.sql tables as the statements of         *)
(* etl/load.js see them                                                    *)
(***************************************************************************)
\* a DATE parameter: the text YYYY-MM-DD of a calendar date, else an error
PgDateOk(v) ==
    /\ IsStr(v)
    /\ Len(v.s) = 10
    /\ StartsWithIsoDate(v.s)
    /\ LET y == DigitsToNat(SubSeq(v.s, 1, 4))
           m == DigitsToNat(SubSeq(v.s, 6, 7))
           d == DigitsToNat(SubSeq(v.s, 9, 10))
       IN y >= 1 /\ m \in 1..12 /\ d >= 1 /\ d <= DaysInMonth(y, m)

PgDay(s) ==
    DaysFromCivil(DigitsToNat(SubSeq(s, 1, 4)), DigitsToNat(SubSeq(s, 6, 7)),
                  DigitsToNat(SubSeq(s, 9, 10)))

\* CURRENT_DATE - INTERVAL '16 years': the day of the month is clamped
SixteenYearsBefore(now) ==
    LET y == now[1] - 16
        d == IF now[3] > DaysInMonth(y, now[2]) THEN DaysInMonth(y, now[2]) ELSE now[3]
    IN DaysFromCivil(y, now[2], d)

\* the column types, NOT NULL, CHECK and FOREIGN KEY constraints of student
StudentRowAccepted(d, p, now) ==
    /\ IsStr(p.student_first_name) /\ Len(p.student_first_name.s) <= 100
    /\ IsStr(p.student_last_name) /\ Len(p.student_last_name.s) <= 100
    /\ IsStr(p.student_email) /\ Len(p.student_email.s) <= 255
    /\ PgDateOk(p.student_date_of_birth)
    /\ PgDay(p.student_date_of_birth.s) <= SixteenYearsBefore(now)
    /\ IsNum(p.student_year) /\ p.student_year.s = <<>> /\ p.student_year.n \in 1..4
    /\ IsStr(p.student_phone_number)
    /\ PHONE_REGEX(p.student_phone_number.s)
    /\ IsNum(p.department_id)
    /\ \E r \in d.department : r.department_id = p.department_id.n

StudentRow(id, p) ==
    [student_id |-> id,
     student_first_name |-> p.student_first_name.s,
     student_last_name |-> p.student_last_name.s,
     student_email |-> p.student_email.s,
     student_date_of_birth |-> p.student_date_of_birth.s,
     student_year |-> p.student_year.n,
     student_phone_number |-> p.student_phone_number.s,
     department_id |-> p.department_id.n]

\* INSERT INTO student ... ON CONFLICT (student_email) DO NOTHING
UpsertStudentDoNothing(d, p) ==
    LET id == d.student_id_seq + 1
        old == {r \in d.student : r.student_email = p.student_email.s}
    IN IF old = {}
       THEN [d EXCEPT !.student = @ \cup {StudentRow(id, p)}, !.student_id_seq = id]
       ELSE [d EXCEPT !.student_id_seq = id]

\* a row inserted under a new id whether or not the e-mail is stored
UpsertStudentInsertOnly(d, p) ==
    LET id == d.student_id_seq + 1
    IN [d EXCEPT !.student = @ \cup {StudentRow(id, p)}, !.student_id_seq = id]

\* INSERT INTO student ... ON CONFLICT (student_email) DO UPDATE SET ...
\* of an accepted row; the SERIAL default is drawn whether or not the row
\* conflicts
UpsertStudent(d, p) ==
    LET id == d.student_id_seq + 1
        old == {r \in d.student : r.student_email = p.student_email.s}
    IN IF old = {}
       THEN [d EXCEPT !.student = @ \cup {StudentRow(id, p)}, !.student_id_seq = id]
       ELSE [d EXCEPT !.student = (@ \ old) \cup {StudentRow(r.student_id, p) : r \in old},
                      !.student_id_seq = id]

\* the column types and constraints of enrollment
EnrollmentRowAccepted(d, p) ==
    /\ PgDateOk(p.enrollment_date)
    /\ IsNum(p.student_id)
    /\ \E r \in d.student : r.student_id = p.student_id.n
    /\ IsStr(p.course_id) /\ Len(p.course_id.s) <= 10
    /\ p.course_id.s \in d.course
    /\ \/ p.grade = Null
       \/ /\ IsStr(p.grade)
          /\ Len(p.grade.s) <= 2
          /\ p.grade.s \in {<<"A">>, <<"A", "-">>, <<"B">>, <<"B", "-">>,
                            <<"C">>, <<"C", "-">>, <<"D">>, <<"F">>}

EnrollmentRow(id, p) ==
    [enrollment_id |-> id,
     enrollment_date |-> p.enrollment_date.s,
     student_id |-> p.student_id.n,
     course_id |-> p.course_id.s,
     grade |-> p.grade]

\* the conflicting row deleted and the incoming one inserted under a new id
UpsertEnrollmentReplace(d, p) ==
    LET id == d.enrollment_id_seq + 1
        old == {r \in d.enrollment : /\ r.student_id = p.student_id.n
                                     /\ r.course_id = p.course_id.s}
    IN [d EXCEPT !.enrollment = (@ \ old) \cup {EnrollmentRow(id, p)},
                 !.enrollment_id_seq = id]

\* INSERT INTO enrollment ... ON CONFLICT (student_id, course_id) DO UPDATE SET
UpsertEnrollment(d, p) ==
    LET id == d.enrollment_id_seq + 1
        old == {r \in d.enrollment : /\ r.student_id = p.student_id.n
                                     /\ r.course_id = p.course_id.s}
    IN IF old = {}
       THEN [d EXCEPT !.enrollment = @ \cup {EnrollmentRow(id, p)},
                      !.enrollment_id_seq = id]
       ELSE [d EXCEPT !.enrollment = (@ \ old)
                            \cup {EnrollmentRow(r.enrollment_id, p) : r \in old},
                      !.enrollment_id_seq = id]

\* getDepartmentMap, getStudentMap, getCourseSet: the result of the SELECT
\* folded into a plain object (a later row of the same key overwrites) / a Set
DepartmentMapOf(d) ==
    [name \in {r.department_name : r \in d.department} |->
        (CHOOSE r \in d.department : r.department_name = name).department_id]

StudentMapOf(d) ==
    [email \in {r.student_email : r \in d.student} |->
        (CHOOSE r \in d.student : r.student_email = email).student_id]

CourseSetOf(d) == d.course

\* getRecordCounts
RecordCountsOf(d) ==
    [students |-> Cardinality(d.student), enrollments |-> Cardinality(d.enrollment)]

(***************************************************************************)
(* Bounds and inputs of the model                                          *)
(***************************************************************************)
\* the longest batch handed to a transformer
MaxBatch == 2

\* the processing date and the UTC offsets (minutes) the transformers run under
Today == <<2026, 11, 3>>
TransformOffsets == {0, 330}

EmptyDb == [department |-> {}, student |-> {}, course |-> {}, enrollment |-> {},
            student_id_seq |-> 0, enrollment_id_seq |-> 0]

\* transformStudents(students, departmentMap) or
\* transformEnrollments(enrollments, studentMap, courseSet) called on its own
InitTransform ==
    /\ entry \in {"transformStudents", "transformEnrollments"}
    /\ pc = entry
    /\ today = Today
    /\ tz \in TransformOffsets
    /\ rawStudents \in (IF entry = "transformStudents"
                        THEN SeqsUpTo(StudentTemplates, MaxBatch) ELSE {<<>>})
    /\ rawEnrollments \in (IF entry = "transformEnrollments"
                           THEN SeqsUpTo(EnrollmentTemplates, MaxBatch) ELSE {<<>>})
    /\ departmentMap = SeedDepartmentMap
    /\ courseSet = SeedCourseSet
    /\ studentMap = SeedStudentMap
    /\ i = 1
    /\ cleanStudents = <<>>
    /\ seenEmails = {}
    /\ cleanEnrollments = <<>>
    /\ seenCombos = {}
    /\ logs = <<>>
    /\ stats = NewStats
    /\ db = EmptyDb
    /\ loaded = 0
    /\ studentWrites = <<>>
    /\ enrollmentWrites = <<>>
    /\ pool = "none"
    /\ result = "none"
    /\ summaries = 0
    /\ dateIn = Undef
    /\ dateOut = <<>>
    /\ verdict = "none"
    /\ api = <<>>
    /\ sheet = <<>>
    /\ runs = NoRuns
    /\ mails = <<>>
    /\ sync = NoSync
    /\ triggers = <<>>

\* the longest file runETL reads
MaxRows == 2

\* a store holding the reference tables only
SeededDb ==
    [department |-> {[department_id |-> 1, department_name |-> ComputerScience],
                     [department_id |-> 2, department_name |-> Electronics],
                     [department_id |-> 3, department_name |-> Mechanical]},
     course |-> SeedCourseSet,
     student |-> {},
     enrollment |-> {},
     student_id_seq |-> 0,
     enrollment_id_seq |-> 0]

\* a store an earlier run has written the student b@x.io and an enrollment to
PriorDb ==
    [SeededDb EXCEPT
        !.student = {[student_id |-> 1,
                      student_first_name |-> <<"B", "o", "b">>,
                      student_last_name |-> <<"L", "e", "e">>,
                      student_email |-> EmailB,
                      student_date_of_birth |-> <<"2", "0", "0", "0", "-", "0", "1", "-", "0", "1">>,
                      student_year |-> 2,
                      student_phone_number |-> <<"5", "5", "5", "0", "0", "0", "0">>,
                      department_id |-> 1]},
        !.enrollment = {[enrollment_id |-> 1,
                         enrollment_date |-> <<"2", "0", "2", "3", "-", "0", "9", "-", "0", "1">>,
                         student_id |-> 1,
                         course_id |-> CS101,
                         grade |-> Str(<<"C">>)]},
        !.student_id_seq = 1,
        !.enrollment_id_seq = 1]

Stores == {SeededDb, PriorDb}

\* arguments of loadStudents: records transformStudents emits, and one the
\* store refuses (year 5)
CleanStudentOf(t) == StudentIteration(t, {}, SeedDepartmentMap, Today, 0).out
CleanStudentTemplates ==
    {CleanStudentOf(StudentA), CleanStudentOf(StudentA2), CleanStudentOf(StudentB),
     [CleanStudentOf(StudentB) EXCEPT !.student_year = Num(5)]}

\* arguments of loadEnrollments: records transformEnrollments emits
CleanEnrollmentOf(t) ==
    EnrollmentIteration(t, {}, SeedStudentMap, SeedCourseSet, 0).out
CleanEnrollmentTemplates ==
    {CleanEnrollmentOf(EnrollA), CleanEnrollmentOf(EnrollA2),
     CleanEnrollmentOf(EnrollBBadDate)}

\* loadStudents(students) or loadEnrollments(enrollments) called on its own,
\* the pool initialized
InitLoad ==
    /\ entry \in {"loadStudents", "loadEnrollments"}
    /\ pc = entry
    /\ today = Today
    /\ tz = 0
    /\ rawStudents = <<>>
    /\ rawEnrollments = <<>>
    /\ departmentMap = SeedDepartmentMap
    /\ courseSet = SeedCourseSet
    /\ studentMap = SeedStudentMap
    /\ i = 1
    /\ cleanStudents \in (IF entry = "loadStudents"
                          THEN SeqsUpTo(CleanStudentTemplates, MaxBatch) ELSE {<<>>})
    /\ seenEmails = {}
    /\ cleanEnrollments \in (IF entry = "loadEnrollments"
                             THEN SeqsUpTo(CleanEnrollmentTemplates, MaxBatch)
                             ELSE {<<>>})
    /\ seenCombos = {}
    /\ logs = <<>>
    /\ stats = NewStats
    /\ db \in Stores
    /\ loaded = 0
    /\ studentWrites = <<>>
    /\ enrollmentWrites = <<>>
    /\ pool = "open"
    /\ result = "none"
    /\ summaries = 0
    /\ dateIn = Undef
    /\ dateOut = <<>>
    /\ verdict = "none"
    /\ api = <<>>
    /\ sheet = <<>>
    /\ runs = NoRuns
    /\ mails = <<>>
    /\ sync = NoSync
    /\ triggers = <<>>

\* the rows of messy_students.csv and messy_enrollments.csv
CsvStudentTemplates == {StudentA, StudentABadYear, StudentB}
CsvEnrollmentTemplates == {EnrollA, EnrollBBadDate, EnrollOrphan}

\* node etl/index.js: a fresh process, the files on disk, the store as an
\* earlier run or the seed script left it
Init ==
    /\ entry = "runETL"
    /\ pc = "extract"
    /\ today = Today
    /\ tz \in TransformOffsets
    /\ rawStudents \in SeqsUpTo(CsvStudentTemplates, MaxRows)
    /\ rawEnrollments \in SeqsUpTo(CsvEnrollmentTemplates, MaxRows)
    /\ departmentMap = <<>>
    /\ courseSet = {}
    /\ studentMap = <<>>
    /\ i = 1
    /\ cleanStudents = <<>>
    /\ seenEmails = {}
    /\ cleanEnrollments = <<>>
    /\ seenCombos = {}
    /\ logs = <<>>
    /\ stats = NewStats
    /\ db \in Stores
    /\ loaded = 0
    /\ studentWrites = <<>>
    /\ enrollmentWrites = <<>>
    /\ pool = "none"
    /\ result = "none"
    /\ summaries = 0
    /\ dateIn = Undef
    /\ dateOut = <<>>
    /\ verdict = "none"
    /\ api = <<>>
    /\ sheet = <<>>
    /\ runs = [files |-> [students |-> rawStudents, enrollments |-> rawEnrollments],
               ended |-> <<>>]
    /\ mails = <<>>
    /\ sync = NoSync
    /\ triggers = <<>>

\* arguments of parseDate: ISO dates with and without a time suffix, slash
\* dates, month-name dates, other strings and values that are not strings
IsoDateInputs ==
    {Str(y \o <<"-">> \o m \o <<"-">> \o d \o suffix) :
        y \in {<<"2", "0", "2", "4">>, <<"2", "0", "2", "3">>},
        m \in {<<"0", "1">>, <<"0", "2">>, <<"1", "3">>},
        d \in {<<"1", "5">>, <<"2", "9">>, <<"3", "1">>, <<"4", "5">>},
        suffix \in {<<>>, <<"T", "1", "0", ":", "3", "0", ":", "0", "0", "Z">>,
                    <<" ", "2", "3", ":", "3", "0", ":", "0", "0">>}}
SlashDateInputs ==
    {Str(d \o <<"/">> \o m \o <<"/", "2", "0", "2", "4">>) :
        d \in {<<"5">>, <<"1", "5">>, <<"3", "1">>, <<"9", "9">>},
        m \in {<<"1">>, <<"0", "2">>, <<"1", "3">>}}
OtherDateInputs ==
    {Str(<<"J", "a", "n", " ", "1", ",", " ", "2", "0", "2", "4">>),
     Str(<<"F", "e", "b", " ", "3", "0", ",", " ", "2", "0", "2", "3">>),
     Str(<<"D", "e", "c", " ", "3", "1", ",", " ", "2", "0", "2", "3">>),
     Str(<<"t", "o", "m", "o", "r", "r", "o", "w">>),
     Str(<<"1", "5", "-", "0", "1", "-", "2", "0", "2", "4">>),
     Str(<<>>), Undef, Null, Num(0), Num(86400000), DateObj(24 * 60 * 19737)}
DateInputs == IsoDateInputs \cup SlashDateInputs \cup OtherDateInputs
DateOffsets == {0 - 300, 0, 330}

\* parseDate(dateStr) called on its own
InitDate ==
    /\ entry = "parseDate"
    /\ pc = "parseDate"
    /\ today = Today
    /\ tz \in DateOffsets
    /\ rawStudents = <<>>
    /\ rawEnrollments = <<>>
    /\ departmentMap = SeedDepartmentMap
    /\ courseSet = SeedCourseSet
    /\ studentMap = SeedStudentMap
    /\ i = 1
    /\ cleanStudents = <<>>
    /\ seenEmails = {}
    /\ cleanEnrollments = <<>>
    /\ seenCombos = {}
    /\ logs = <<>>
    /\ stats = NewStats
    /\ db = EmptyDb
    /\ loaded = 0
    /\ studentWrites = <<>>
    /\ enrollmentWrites = <<>>
    /\ pool = "none"
    /\ result = "none"
    /\ summaries = 0
    /\ dateIn \in DateInputs
    /\ dateOut = <<>>
    /\ verdict = "none"
    /\ api = <<>>
    /\ sheet = <<>>
    /\ runs = NoRuns
    /\ mails = <<>>
    /\ sync = NoSync
    /\ triggers = <<>>

(***************************************************************************)
(* etl/index.js: the sequence of runETL's try block                        *)
(***************************************************************************)
\* getStudentMap placed with the other lookups, before the students are loaded
RunETLOrderLookupsFirst ==
    <<"extract", "getDepartmentMap", "getCourseSet", "getStudentMap",
      "transformStudents", "loadStudents", "transformEnrollments",
      "loadEnrollments", "getRecordCounts", "closeConnection">>

RunETLOrder ==
    <<"extract", "getDepartmentMap", "getCourseSet", "transformStudents",
      "loadStudents", "getStudentMap", "transformEnrollments", "loadEnrollments",
      "getRecordCounts", "closeConnection">>

\* the sequence of runPendingRegistrations' try block
PendingOrder ==
    <<"extractPendingRegistrations", "validatePendingRegistrations",
      "getDepartmentMap", "transformStudents", "loadStudents", "getRecordCounts",
      "closeConnection">>

\* the step that follows step p in the running entry function
After(p) ==
    LET order == IF entry = "runPendingRegistrations" THEN PendingOrder
                 ELSE RunETLOrder
    IN order[(CHOOSE n \in 1..(Len(order) - 1) : order[n] = p) + 1]

(***************************************************************************)
(* Actions: the record transformer                                         *)
(***************************************************************************)
\* the failure logged and the run going on with the next step
PropagateLogOnly ==
    /\ logs' = Append(logs, LoggerErrorEntry("ETL Pipeline failed"))
    /\ stats' = LoggerErrorStats(stats, "ETL Pipeline failed")
    /\ pc' = After(pc)
    /\ UNCHANGED result

\* An exception leaves the running function.  In runETL and in
\* runPendingRegistrations the catch block logs it and the finally block
\* follows; a function called on its own ends.
Propagate ==
    IF entry = "runETL"
    THEN /\ logs' = Append(logs, LoggerErrorEntry("ETL Pipeline failed"))
         /\ stats' = LoggerErrorStats(stats, "ETL Pipeline failed")
         /\ pc' = "closeConnection"
         /\ result' = "thrown"
    ELSE IF entry = "runPendingRegistrations"
    THEN /\ logs' = Append(logs, LoggerErrorEntry("Pending registrations processing failed"))
         /\ stats' = LoggerErrorStats(stats, "Pending registrations processing failed")
         /\ pc' = "closeConnection"
         /\ result' = "thrown"
    ELSE /\ pc' = "done"
         /\ result' = "thrown"
         /\ UNCHANGED <<logs, stats>>

\* one iteration of transformStudents' loop
TransformStudentsStep ==
    /\ pc = "transformStudents"
    /\ i <= Len(rawStudents)
    /\ LET r == StudentIteration(rawStudents[i], seenEmails, departmentMap, today, tz)
       IN /\ seenEmails' = r.seen
          /\ CASE r.kind = "emit" ->
                    /\ cleanStudents' = Append(cleanStudents, r.out)
                    /\ i' = i + 1
                    /\ UNCHANGED <<logs, stats, pc, result>>
               [] r.kind = "warn" ->
                    /\ logs' = Append(logs, LoggerWarnEntry(r.message, rawStudents[i], i))
                    /\ stats' = LoggerWarnStats(stats)
                    /\ i' = i + 1
                    /\ UNCHANGED <<cleanStudents, pc, result>>
               [] OTHER ->
                    /\ Propagate
                    /\ UNCHANGED <<cleanStudents, i>>
    /\ UNCHANGED <<entry, today, tz, rawStudents, rawEnrollments, departmentMap,
                   courseSet, studentMap, cleanEnrollments, seenCombos, db,
                   loaded, studentWrites, enrollmentWrites, pool, summaries,
                   dateIn, dateOut, verdict, api, sheet, runs, mails, sync, triggers>>

\* the end of transformStudents: stats.transformed += transformed.length; return
TransformStudentsReturn ==
    /\ pc = "transformStudents"
    /\ i > Len(rawStudents)
    /\ stats' = [stats EXCEPT !.transformed = @ + Len(cleanStudents)]
    /\ IF entry = "transformStudents"
       THEN /\ pc' = "done"
            /\ result' = "returned"
            /\ UNCHANGED <<i, loaded>>
       ELSE /\ pc' = After("transformStudents")
            /\ i' = 1
            /\ loaded' = 0
            /\ UNCHANGED result
    /\ UNCHANGED <<entry, today, tz, rawStudents, rawEnrollments, departmentMap,
                   courseSet, studentMap, cleanStudents, seenEmails, cleanEnrollments,
                   seenCombos, logs, db, studentWrites, enrollmentWrites, pool,
                   summaries, dateIn, dateOut, verdict, api, sheet, runs, mails, sync, triggers>>

\* one iteration of transformEnrollments' loop
TransformEnrollmentsStep ==
    /\ pc = "transformEnrollments"
    /\ i <= Len(rawEnrollments)
    /\ LET r == EnrollmentIteration(rawEnrollments[i], seenCombos, studentMap,
                                    courseSet, tz)
       IN /\ seenCombos' = r.seen
          /\ CASE r.kind = "emit" ->
                    /\ cleanEnrollments' = Append(cleanEnrollments, r.out)
                    /\ i' = i + 1
                    /\ UNCHANGED <<logs, stats, pc, result>>
               [] r.kind = "warn" ->
                    /\ logs' = Append(logs, LoggerWarnEntry(r.message, rawEnrollments[i], i))
                    /\ stats' = LoggerWarnStats(stats)
                    /\ i' = i + 1
                    /\ UNCHANGED <<cleanEnrollments, pc, result>>
               [] OTHER ->
                    /\ Propagate
                    /\ UNCHANGED <<cleanEnrollments, i>>
    /\ UNCHANGED <<entry, today, tz, rawStudents, rawEnrollments, departmentMap,
                   courseSet, studentMap, cleanStudents, seenEmails, db,
                   loaded, studentWrites, enrollmentWrites, pool, summaries,
                   dateIn, dateOut, verdict, api, sheet, runs, mails, sync, triggers>>

\* the end of transformEnrollments
TransformEnrollmentsReturn ==
    /\ pc = "transformEnrollments"
    /\ i > Len(rawEnrollments)
    /\ stats' = [stats EXCEPT !.transformed = @ + Len(cleanEnrollments)]
    /\ IF entry = "transformEnrollments"
       THEN /\ pc' = "done"
            /\ result' = "returned"
            /\ UNCHANGED <<i, loaded>>
       ELSE /\ pc' = After("transformEnrollments")
            /\ i' = 1
            /\ loaded' = 0
            /\ UNCHANGED result
    /\ UNCHANGED <<entry, today, tz, rawStudents, rawEnrollments, departmentMap,
                   courseSet, studentMap, cleanStudents, seenEmails, cleanEnrollments,
                   seenCombos, logs, db, studentWrites, enrollmentWrites, pool,
                   summaries, dateIn, dateOut, verdict, api, sheet, runs, mails, sync, triggers>>

NextTransform ==
    \/ TransformStudentsStep
    \/ TransformStudentsReturn
    \/ TransformEnrollmentsStep
    \/ TransformEnrollmentsReturn

SpecTransform == InitTransform /\ [][NextTransform]_vars

(***************************************************************************)
(* Actions: etl/load.js on its own and inside runETL                       *)
(***************************************************************************)
\* logger.error of a failed statement for the record at position ref
LoadErrorEntry(message, ref) == [LoggerErrorEntry(message) EXCEPT !.ref = ref]

\* the loop of loadStudents without its try/catch: a failed statement ends
\* the function
LoadStudentsStepAbort ==
    /\ pc = "loadStudents"
    /\ i <= Len(cleanStudents)
    /\ \E reachable \in BOOLEAN :
          IF reachable /\ StudentRowAccepted(db, cleanStudents[i], today)
          THEN /\ db' = UpsertStudent(db, cleanStudents[i])
               /\ loaded' = loaded + 1
               /\ studentWrites' = Append(studentWrites, TRUE)
               /\ i' = i + 1
               /\ UNCHANGED <<logs, stats, pc, result>>
          ELSE /\ Propagate
               /\ studentWrites' = Append(studentWrites, FALSE)
               /\ UNCHANGED <<db, loaded, i>>
    /\ UNCHANGED <<entry, today, tz, rawStudents, rawEnrollments, departmentMap,
                   courseSet, studentMap, cleanStudents, seenEmails, cleanEnrollments,
                   seenCombos, enrollmentWrites, pool, summaries, dateIn,
                   dateOut, verdict, api, sheet, runs, mails, sync, triggers>>

\* one iteration of loadStudents' loop: the statement is executed, or it is
\* refused by the store, or it fails for a reason outside the record
LoadStudentsStep ==
    /\ pc = "loadStudents"
    /\ i <= Len(cleanStudents)
    /\ \E reachable \in BOOLEAN :
          IF reachable /\ StudentRowAccepted(db, cleanStudents[i], today)
          THEN /\ db' = UpsertStudent(db, cleanStudents[i])
               /\ loaded' = loaded + 1
               /\ studentWrites' = Append(studentWrites, TRUE)
               /\ UNCHANGED <<logs, stats>>
          ELSE /\ logs' = Append(logs, LoadErrorEntry("Failed to insert student", i))
               /\ stats' = LoggerErrorStats(stats, "Failed to insert student")
               /\ studentWrites' = Append(studentWrites, FALSE)
               /\ UNCHANGED <<db, loaded>>
    /\ i' = i + 1
    /\ UNCHANGED <<entry, pc, today, tz, rawStudents, rawEnrollments, departmentMap,
                   courseSet, studentMap, cleanStudents, seenEmails, cleanEnrollments,
                   seenCombos, enrollmentWrites, pool, result, summaries, dateIn,
                   dateOut, verdict, api, sheet, runs, mails, sync, triggers>>

\* the end of loadStudents: logger.stats.loaded += loaded; return loaded
LoadStudentsReturn ==
    /\ pc = "loadStudents"
    /\ i > Len(cleanStudents)
    /\ stats' = [stats EXCEPT !.loaded = @ + loaded]
    /\ IF entry = "loadStudents"
       THEN /\ pc' = "done"
            /\ result' = "returned"
            /\ UNCHANGED <<i, loaded>>
       ELSE /\ pc' = After("loadStudents")
            /\ i' = 1
            /\ loaded' = 0
            /\ UNCHANGED result
    /\ UNCHANGED <<entry, today, tz, rawStudents, rawEnrollments, departmentMap,
                   courseSet, studentMap, cleanStudents, seenEmails, cleanEnrollments,
                   seenCombos, logs, db, studentWrites, enrollmentWrites, pool,
                   summaries, dateIn, dateOut, verdict, api, sheet, runs, mails, sync, triggers>>

\* one iteration of loadEnrollments' loop
LoadEnrollmentsStep ==
    /\ pc = "loadEnrollments"
    /\ i <= Len(cleanEnrollments)
    /\ \E reachable \in BOOLEAN :
          IF reachable /\ EnrollmentRowAccepted(db, cleanEnrollments[i])
          THEN /\ db' = UpsertEnrollment(db, cleanEnrollments[i])
               /\ loaded' = loaded + 1
               /\ enrollmentWrites' = Append(enrollmentWrites, TRUE)
               /\ UNCHANGED <<logs, stats>>
          ELSE /\ logs' = Append(logs, LoadErrorEntry("Failed to insert enrollment", i))
               /\ stats' = LoggerErrorStats(stats, "Failed to insert enrollment")
               /\ enrollmentWrites' = Append(enrollmentWrites, FALSE)
               /\ UNCHANGED <<db, loaded>>
    /\ i' = i + 1
    /\ UNCHANGED <<entry, pc, today, tz, rawStudents, rawEnrollments, departmentMap,
                   courseSet, studentMap, cleanStudents, seenEmails, cleanEnrollments,
                   seenCombos, studentWrites, pool, result, summaries, dateIn,
                   dateOut, verdict, api, sheet, runs, mails, sync, triggers>>

\* the end of loadEnrollments
LoadEnrollmentsReturn ==
    /\ pc = "loadEnrollments"
    /\ i > Len(cleanEnrollments)
    /\ stats' = [stats EXCEPT !.loaded = @ + loaded]
    /\ IF entry = "loadEnrollments"
       THEN /\ pc' = "done"
            /\ result' = "returned"
            /\ UNCHANGED <<i, loaded>>
       ELSE /\ pc' = After("loadEnrollments")
            /\ i' = 1
            /\ loaded' = 0
            /\ UNCHANGED result
    /\ UNCHANGED <<entry, today, tz, rawStudents, rawEnrollments, departmentMap,
                   courseSet, studentMap, cleanStudents, seenEmails, cleanEnrollments,
                   seenCombos, logs, db, studentWrites, enrollmentWrites, pool,
                   summaries, dateIn, dateOut, verdict, api, sheet, runs, mails, sync, triggers>>

NextLoad ==
    \/ LoadStudentsStep
    \/ LoadStudentsReturn
    \/ LoadEnrollmentsStep
    \/ LoadEnrollmentsReturn

(***************************************************************************)
(* Actions: etl/index.js runETL                                            *)
(***************************************************************************)
\* csv-parse with columns: true and trim: true: every cell of a column of the
\* header is a trimmed string, the empty string where the cell is empty
CsvCell(v) == IF IsStr(v) THEN Str(Trim(v.s)) ELSE Str(<<>>)
CsvParse(rows) ==
    [k \in 1..Len(rows) |-> [f \in DOMAIN rows[k] |-> CsvCell(rows[k][f])]]

\* the files extractAll reads, in its order, and their numbers of rows;
\* departments.csv and courses.csv list the rows of the reference tables
ExtractFiles ==
    <<[name |-> "messy_students.csv", rows |-> Len(rawStudents)],
      [name |-> "messy_enrollments.csv", rows |-> Len(rawEnrollments)],
      [name |-> "departments.csv", rows |-> Cardinality(db.department)],
      [name |-> "courses.csv", rows |-> Cardinality(db.course)]>>

RECURSIVE RowsOfFirst(_)
RowsOfFirst(n) == IF n = 0 THEN 0 ELSE RowsOfFirst(n - 1) + ExtractFiles[n].rows

\* extractAll() and initConnection(); failedAt is the file whose read or parse
\* raises (0: none)
Extract ==
    /\ pc = "extract"
    /\ \E failedAt \in 0..Len(ExtractFiles) :
          IF failedAt = 0
          THEN /\ stats' = [stats EXCEPT !.extracted = @ + RowsOfFirst(Len(ExtractFiles))]
               /\ rawStudents' = CsvParse(rawStudents)
               /\ rawEnrollments' = CsvParse(rawEnrollments)
               /\ pool' = "open"
               /\ pc' = After("extract")
               /\ UNCHANGED <<logs, result>>
          ELSE /\ stats' = [stats EXCEPT
                               !.extracted = @ + RowsOfFirst(failedAt - 1),
                               !.errors = @ \o <<"Failed to extract", "ETL Pipeline failed">>]
               /\ logs' = logs \o <<LoggerErrorEntry("Failed to extract"),
                                    LoggerErrorEntry("ETL Pipeline failed")>>
               /\ pc' = "closeConnection"
               /\ result' = "thrown"
               /\ UNCHANGED <<rawStudents, rawEnrollments, pool>>
    /\ i' = 1
    /\ loaded' = 0
    /\ UNCHANGED <<entry, today, tz, departmentMap, courseSet, studentMap,
                   cleanStudents, seenEmails, cleanEnrollments, seenCombos, db,
                   studentWrites, enrollmentWrites, summaries, dateIn, dateOut, verdict, api, sheet, runs, mails, sync, triggers>>

\* const departmentMap = await getDepartmentMap()
GetDepartmentMap ==
    /\ pc = "getDepartmentMap"
    /\ \E reachable \in BOOLEAN :
          IF reachable
          THEN /\ departmentMap' = DepartmentMapOf(db)
               /\ pc' = After("getDepartmentMap")
               /\ UNCHANGED <<logs, stats, result>>
          ELSE /\ Propagate
               /\ UNCHANGED departmentMap
    /\ UNCHANGED <<entry, today, tz, rawStudents, rawEnrollments, courseSet,
                   studentMap, i, cleanStudents, seenEmails, cleanEnrollments,
                   seenCombos, db, loaded, studentWrites, enrollmentWrites, pool,
                   summaries, dateIn, dateOut, verdict, api, sheet, runs, mails, sync, triggers>>

\* const courseSet = await getCourseSet()
GetCourseSet ==
    /\ pc = "getCourseSet"
    /\ \E reachable \in BOOLEAN :
          IF reachable
          THEN /\ courseSet' = CourseSetOf(db)
               /\ pc' = After("getCourseSet")
               /\ UNCHANGED <<logs, stats, result>>
          ELSE /\ Propagate
               /\ UNCHANGED courseSet
    /\ UNCHANGED <<entry, today, tz, rawStudents, rawEnrollments, departmentMap,
                   studentMap, i, cleanStudents, seenEmails, cleanEnrollments,
                   seenCombos, db, loaded, studentWrites, enrollmentWrites, pool,
                   summaries, dateIn, dateOut, verdict, api, sheet, runs, mails, sync, triggers>>

\* const studentMap = await getStudentMap()
GetStudentMap ==
    /\ pc = "getStudentMap"
    /\ \E reachable \in BOOLEAN :
          IF reachable
          THEN /\ studentMap' = StudentMapOf(db)
               /\ pc' = After("getStudentMap")
               /\ UNCHANGED <<logs, stats, result>>
          ELSE /\ Propagate
               /\ UNCHANGED studentMap
    /\ UNCHANGED <<entry, today, tz, rawStudents, rawEnrollments, departmentMap,
                   courseSet, i, cleanStudents, seenEmails, cleanEnrollments,
                   seenCombos, db, loaded, studentWrites, enrollmentWrites, pool,
                   summaries, dateIn, dateOut, verdict, api, sheet, runs, mails, sync, triggers>>

\* const counts = await getRecordCounts(); the counts are only logged
GetRecordCounts ==
    /\ pc = "getRecordCounts"
    /\ \E reachable \in BOOLEAN :
          IF reachable
          THEN /\ pc' = After("getRecordCounts")
               /\ UNCHANGED <<logs, stats, result>>
          ELSE Propagate
    /\ UNCHANGED <<entry, today, tz, rawStudents, rawEnrollments, departmentMap,
                   courseSet, studentMap, i, cleanStudents, seenEmails,
                   cleanEnrollments, seenCombos, db, loaded, studentWrites,
                   enrollmentWrites, pool, summaries, dateIn, dateOut, verdict, api, sheet, runs, mails, sync, triggers>>

\* the finally block without the pool.end()
CloseConnectionLeavesPool ==
    /\ pc = "closeConnection"
    /\ pc' = "summary"
    /\ UNCHANGED <<entry, today, tz, rawStudents, rawEnrollments, departmentMap,
                   courseSet, studentMap, i, cleanStudents, seenEmails,
                   cleanEnrollments, seenCombos, logs, stats, db, loaded,
                   studentWrites, enrollmentWrites, pool, result, summaries, dateIn,
                   dateOut, verdict, api, sheet, runs, mails, sync, triggers>>

\* finally: await closeConnection()
CloseConnection ==
    /\ pc = "closeConnection"
    /\ pool' = IF pool = "none" THEN "none" ELSE "ended"
    /\ pc' = "summary"
    /\ UNCHANGED <<entry, today, tz, rawStudents, rawEnrollments, departmentMap,
                   courseSet, studentMap, i, cleanStudents, seenEmails,
                   cleanEnrollments, seenCombos, logs, stats, db, loaded,
                   studentWrites, enrollmentWrites, result, summaries, dateIn,
                   dateOut, verdict, api, sheet, runs, mails, sync, triggers>>

\* finally: logger.summary(); then runETL returns or rethrows
Summary ==
    /\ pc = "summary"
    /\ summaries' = summaries + 1
    /\ pc' = "done"
    /\ result' = IF result = "thrown" THEN "thrown" ELSE "returned"
    /\ UNCHANGED <<entry, today, tz, rawStudents, rawEnrollments, departmentMap,
                   courseSet, studentMap, i, cleanStudents, seenEmails,
                   cleanEnrollments, seenCombos, logs, stats, db, loaded,
                   studentWrites, enrollmentWrites, pool, dateIn, dateOut, verdict, api, sheet, runs, mails, sync, triggers>>

Next ==
    \/ Extract
    \/ GetDepartmentMap
    \/ GetCourseSet
    \/ TransformStudentsStep
    \/ TransformStudentsReturn
    \/ LoadStudentsStep
    \/ LoadStudentsReturn
    \/ GetStudentMap
    \/ TransformEnrollmentsStep
    \/ TransformEnrollmentsReturn
    \/ LoadEnrollmentsStep
    \/ LoadEnrollmentsReturn
    \/ GetRecordCounts
    \/ CloseConnection
    \/ Summary

SpecLoad == InitLoad /\ [][NextLoad]_vars

Spec == Init /\ [][Next]_vars

\* a write of the run failed although the store would have taken the row
WriteFailedOutside(d, students, sWrites, enrollments, eWrites) ==
    \/ \E k \in 1..Len(sWrites) :
          ~sWrites[k] /\ StudentRowAccepted(d, students[k], today)
    \/ \E k \in 1..Len(eWrites) :
          ~eWrites[k] /\ EnrollmentRowAccepted(d, enrollments[k])

\* runETL has returned with every statement carried out, and the pipeline is
\* started once more, in a new process, on the same files, the same date and
\* the store as the first run left it; what the first run did is kept as
\* history
RunETLAgain ==
    /\ entry = "runETL"
    /\ pc = "done"
    /\ runs.ended = <<>>
    /\ result = "returned"
    /\ ~WriteFailedOutside(db, cleanStudents, studentWrites,
                           cleanEnrollments, enrollmentWrites)
    /\ runs' = [runs EXCEPT !.ended =
                    <<[db |-> db, result |-> result,
                       cleanStudents |-> cleanStudents, studentWrites |-> studentWrites,
                       cleanEnrollments |-> cleanEnrollments,
                       enrollmentWrites |-> enrollmentWrites]>>]
    /\ pc' = "extract"
    /\ rawStudents' = runs.files.students
    /\ rawEnrollments' = runs.files.enrollments
    /\ departmentMap' = <<>>
    /\ courseSet' = {}
    /\ studentMap' = <<>>
    /\ i' = 1
    /\ cleanStudents' = <<>>
    /\ seenEmails' = {}
    /\ cleanEnrollments' = <<>>
    /\ seenCombos' = {}
    /\ logs' = <<>>
    /\ stats' = NewStats
    /\ loaded' = 0
    /\ studentWrites' = <<>>
    /\ enrollmentWrites' = <<>>
    /\ pool' = "none"
    /\ result' = "none"
    /\ summaries' = 0
    /\ UNCHANGED <<entry, today, tz, db, dateIn, dateOut, verdict, api, sheet,
                   mails, sync, triggers>>

NextTwice ==
    \/ Extract
    \/ GetDepartmentMap
    \/ GetCourseSet
    \/ TransformStudentsStep
    \/ TransformStudentsReturn
    \/ LoadStudentsStep
    \/ LoadStudentsReturn
    \/ GetStudentMap
    \/ TransformEnrollmentsStep
    \/ TransformEnrollmentsReturn
    \/ LoadEnrollmentsStep
    \/ LoadEnrollmentsReturn
    \/ GetRecordCounts
    \/ CloseConnection
    \/ Summary
    \/ RunETLAgain

SpecTwice == Init /\ [][NextTwice]_vars

(***************************************************************************)
(* etl/pending-registrations.js and etl/index.js runPendingRegistrations   *)
(***************************************************************************)
\* ToNumber, as the relational operators apply it to an operand: [nan, v]
JsToNumber(v) ==
    CASE v.t = "number" -> [nan |-> FALSE, v |-> v.n]
      [] v.t = "null" -> [nan |-> FALSE, v |-> 0]
      [] v.t = "string" ->
            LET s == Trim(v.s)
                neg == s # <<>> /\ s[1] = "-"
                body == IF s # <<>> /\ s[1] \in {"+", "-"} THEN Tail(s) ELSE s
            IN IF s = <<>> THEN [nan |-> FALSE, v |-> 0]
               ELSE IF body # <<>> /\ AllDigits(body)
               THEN [nan |-> FALSE,
                     v |-> IF neg THEN 0 - DigitsToNat(body) ELSE DigitsToNat(body)]
               ELSE NaN
      [] OTHER -> NaN

\* student.year < 1 || student.year > 4
YearOutOfRange(year) ==
    LET n == JsToNumber(year)
    IN ~n.nan /\ (n.v < 1 \/ n.v > 4 \/ (n.v = 4 /\ IsNum(year) /\ year.s # <<>>))

\* student.email.includes('@') raises when email is truthy and has no includes
EmailIncludesRaises(student) ==
    Truthy(student.email) /\ ~IsStr(student.email)

\* the errors list validatePendingRegistrations builds for one student
PendingErrorsOf(student) ==
    (IF ~Truthy(student.firstName) THEN <<"Missing firstName">> ELSE <<>>)
    \o (IF ~Truthy(student.lastName) THEN <<"Missing lastName">> ELSE <<>>)
    \o (IF ~Truthy(student.email) THEN <<"Missing email">> ELSE <<>>)
    \o (IF ~Truthy(student.year) THEN <<"Missing year">> ELSE <<>>)
    \o (IF ~Truthy(student.department) THEN <<"Missing department">> ELSE <<>>)
    \o (IF Truthy(student.email) /\ IsStr(student.email)
           /\ (\A k \in 1..Len(student.email.s) : student.email.s[k] # "@")
        THEN <<"Invalid email format">> ELSE <<>>)
    \o (IF Truthy(student.year) /\ YearOutOfRange(student.year)
        THEN <<"Year must be between 1 and 4">> ELSE <<>>)

\* validatePendingRegistrations(students): raises, or { valid, invalid }
\* (invalid as the list of index + 1 of its entries)
validatePendingRegistrations(students) ==
    [raises |-> \E k \in 1..Len(students) : EmailIncludesRaises(students[k]),
     valid |-> SelectSeq(students, LAMBDA st : PendingErrorsOf(st) = <<>>),
     invalid |-> SelectSeq([k \in 1..Len(students) |-> k],
                           LAMBDA k : PendingErrorsOf(students[k]) # <<>>)]

\* records of data/pending-registrations.json: StudentA2; one without a phone
\* number; one without an e-mail; one with the year 7; one whose e-mail is a
\* number
PendingNoPhone ==
    [StudentA2 EXCEPT !.email = Str(<<"d", "@", "x", ".", "i", "o">>), !.phoneNumber = Undef]
PendingNoEmail ==
    [StudentA2 EXCEPT !.email = Str(<<>>)]
PendingYearSeven ==
    [StudentA2 EXCEPT !.year = Num(7)]
PendingNumEmail ==
    [StudentA2 EXCEPT !.email = Num(42)]
PendingTemplates ==
    {StudentA2, PendingNoPhone, PendingNoEmail, PendingYearSeven, PendingNumEmail}

InitPending ==
    /\ entry = "runPendingRegistrations"
    /\ pc = "extractPendingRegistrations"
    /\ today = Today
    /\ tz \in TransformOffsets
    /\ rawStudents \in SeqsUpTo(PendingTemplates, MaxRows)
    /\ rawEnrollments = <<>>
    /\ departmentMap = <<>>
    /\ courseSet = {}
    /\ studentMap = <<>>
    /\ i = 1
    /\ cleanStudents = <<>>
    /\ seenEmails = {}
    /\ cleanEnrollments = <<>>
    /\ seenCombos = {}
    /\ logs = <<>>
    /\ stats = NewStats
    /\ db \in Stores
    /\ loaded = 0
    /\ studentWrites = <<>>
    /\ enrollmentWrites = <<>>
    /\ pool = "none"
    /\ result = "none"
    /\ summaries = 0
    /\ dateIn = Undef
    /\ dateOut = <<>>
    /\ verdict = "none"
    /\ api = <<>>
    /\ sheet = <<>>
    /\ runs = [files |-> [students |-> rawStudents, enrollments |-> <<>>], ended |-> <<>>]
    /\ mails = <<>>
    /\ sync = NoSync
    /\ triggers = <<>>

\* const pendingStudents = await extractPendingRegistrations(): the file is
\* read and holds a students array, or the call raises
ExtractPending ==
    /\ pc = "extractPendingRegistrations"
    /\ \E readable \in BOOLEAN :
          IF readable
          THEN /\ pc' = After("extractPendingRegistrations")
               /\ UNCHANGED <<logs, stats, result>>
          ELSE Propagate
    /\ UNCHANGED <<entry, today, tz, rawStudents, rawEnrollments, departmentMap,
                   courseSet, studentMap, i, cleanStudents, seenEmails,
                   cleanEnrollments, seenCombos, db, loaded, studentWrites,
                   enrollmentWrites, pool, summaries, dateIn, dateOut, verdict,
                   api, sheet, runs, mails, sync, triggers>>

\* the warnings of phase 2: one for the count of invalid entries, one per
\* invalid entry, and one when nothing is left
PendingWarnings(validation) ==
    (IF validation.invalid # <<>>
     THEN <<LoggerWarnEntry("Found invalid entries", Null, 0)>>
          \o [k \in 1..Len(validation.invalid) |->
                 LoggerWarnEntry("Row invalid", Null, 0)]
     ELSE <<>>)
    \o (IF validation.valid = <<>>
        THEN <<LoggerWarnEntry("No valid students to process. Exiting.", Null, 0)>>
        ELSE <<>>)

\* const validation = validatePendingRegistrations(pendingStudents), the
\* warnings, the early return and initConnection(); from here on rawStudents
\* is validation.valid
ValidatePending ==
    /\ pc = "validatePendingRegistrations"
    /\ LET validation == validatePendingRegistrations(rawStudents)
       IN IF validation.raises
          THEN /\ Propagate
               /\ UNCHANGED <<rawStudents, pool>>
          ELSE /\ logs' = logs \o PendingWarnings(validation)
               /\ stats' = [stats EXCEPT !.skipped = @ + Len(PendingWarnings(validation))]
               /\ rawStudents' = validation.valid
               /\ IF validation.valid = <<>>
                  THEN /\ pc' = "closeConnection"
                       /\ UNCHANGED pool
                  ELSE /\ pc' = After("validatePendingRegistrations")
                       /\ pool' = "open"
               /\ UNCHANGED result
    /\ UNCHANGED <<entry, today, tz, rawEnrollments, departmentMap, courseSet,
                   studentMap, i, cleanStudents, seenEmails, cleanEnrollments,
                   seenCombos, db, loaded, studentWrites, enrollmentWrites,
                   summaries, dateIn, dateOut, verdict, api, sheet, runs, mails, sync, triggers>>

\* logger.success(`Successfully registered ${validation.valid.length}
\* students!`): the number the run reports once getRecordCounts has returned
RegisteredReported == Len(rawStudents)

NextPending ==
    \/ ExtractPending
    \/ ValidatePending
    \/ GetDepartmentMap
    \/ TransformStudentsStep
    \/ TransformStudentsReturn
    \/ LoadStudentsStep
    \/ LoadStudentsReturn
    \/ GetRecordCounts
    \/ CloseConnection
    \/ Summary

SpecPending == InitPending /\ [][NextPending]_vars

(***************************************************************************)
(* etl/index.js: either entry point, run to its end                        *)
(***************************************************************************)
\* npm run etl, with or without --pending
InitLive == Init \/ InitPending

NextLive ==
    \/ Extract
    \/ ExtractPending
    \/ ValidatePending
    \/ GetDepartmentMap
    \/ GetCourseSet
    \/ TransformStudentsStep
    \/ TransformStudentsReturn
    \/ LoadStudentsStep
    \/ LoadStudentsReturn
    \/ GetStudentMap
    \/ TransformEnrollmentsStep
    \/ TransformEnrollmentsReturn
    \/ LoadEnrollmentsStep
    \/ LoadEnrollmentsReturn
    \/ GetRecordCounts
    \/ CloseConnection
    \/ Summary

\* the steps that follow an awaited call and the returns of the loops
Resumptions ==
    \/ Extract
    \/ ExtractPending
    \/ ValidatePending
    \/ GetDepartmentMap
    \/ GetCourseSet
    \/ TransformStudentsReturn
    \/ LoadStudentsStep
    \/ LoadStudentsReturn
    \/ GetStudentMap
    \/ TransformEnrollmentsReturn
    \/ LoadEnrollmentsStep
    \/ LoadEnrollmentsReturn
    \/ GetRecordCounts
    \/ CloseConnection
    \/ Summary

\* weak fairness of the two synchronous loops, each enabled exactly when its
\* guard holds: a loop that has a record left goes through it
LoopsRun ==
    /\ \/ []<>(~(pc = "transformStudents" /\ i <= Len(rawStudents)))
       \/ []<><<TransformStudentsStep>>_vars
    /\ \/ []<>(~(pc = "transformEnrollments" /\ i <= Len(rawEnrollments)))
       \/ []<><<TransformEnrollmentsStep>>_vars

\* every call awaited returns or fails, and the event loop then resumes the
\* function: a step that is possible is taken
SpecLive == InitLive /\ [][NextLive]_vars /\ WF_vars(Resumptions) /\ LoopsRun

(***************************************************************************)
(* scripts/test_connection.js: POST /api/students, and the response        *)
(* handling of apps-script/Code.gs                                         *)
(***************************************************************************)
\* String.prototype.includes
Includes(s, sub) ==
    \E k \in 0..(Len(s) - Len(sub)) : SubSeq(s, k + 1, k + Len(sub)) = sub

\* Array.prototype.join('; ')
RECURSIVE JoinSemicolon(_)
JoinSemicolon(parts) ==
    IF parts = <<>> THEN <<>>
    ELSE IF Len(parts) = 1 THEN parts[1]
    ELSE parts[1] \o <<";", " ">> \o JoinSemicolon(Tail(parts))

\* the texts of the responses
FirstNameRequired ==
    <<"F", "i", "r", "s", "t", " ", "n", "a", "m", "e", " ", "i", "s", " ",
      "r", "e", "q", "u", "i", "r", "e", "d">>
LastNameRequired ==
    <<"L", "a", "s", "t", " ", "n", "a", "m", "e", " ", "i", "s", " ", "r",
      "e", "q", "u", "i", "r", "e", "d">>
InvalidEmailFormat ==
    <<"I", "n", "v", "a", "l", "i", "d", " ", "e", "m", "a", "i", "l", " ",
      "f", "o", "r", "m", "a", "t">>
InvalidDateOfBirth ==
    <<"I", "n", "v", "a", "l", "i", "d", " ", "d", "a", "t", "e", " ", "o",
      "f", " ", "b", "i", "r", "t", "h", " ", "o", "r", " ", "s", "t", "u",
      "d", "e", "n", "t", " ", "u", "n", "d", "e", "r", " ", "1", "6", " ",
      "y", "e", "a", "r", "s", " ", "o", "l", "d">>
YearBetween ==
    <<"Y", "e", "a", "r", " ", "m", "u", "s", "t", " ", "b", "e", " ", "b",
      "e", "t", "w", "e", "e", "n", " ", "1", " ", "a", "n", "d", " ", "4">>
InvalidPhoneFormat ==
    <<"I", "n", "v", "a", "l", "i", "d", " ", "p", "h", "o", "n", "e", " ",
      "n", "u", "m", "b", "e", "r", " ", "f", "o", "r", "m", "a", "t">>
UnknownDepartmentPrefix ==
    <<"U", "n", "k", "n", "o", "w", "n", " ", "d", "e", "p", "a", "r", "t",
      "m", "e", "n", "t", ":", " ">>
DepartmentPrefix ==
    <<"D", "e", "p", "a", "r", "t", "m", "e", "n", "t", " ", "\"">>
NotFoundInDatabase ==
    <<"\"", " ", "n", "o", "t", " ", "f", "o", "u", "n", "d", " ", "i", "n",
      " ", "d", "a", "t", "a", "b", "a", "s", "e">>
StudentAlreadyExists ==
    <<"S", "t", "u", "d", "e", "n", "t", " ", "w", "i", "t", "h", " ", "t",
      "h", "i", "s", " ", "e", "m", "a", "i", "l", " ", "a", "l", "r", "e",
      "a", "d", "y", " ", "e", "x", "i", "s", "t", "s">>
InternalServerErrorPrefix ==
    <<"I", "n", "t", "e", "r", "n", "a", "l", " ", "s", "e", "r", "v", "e",
      "r", " ", "e", "r", "r", "o", "r", ":", " ">>
UnauthorizedInvalidKey ==
    <<"U", "n", "a", "u", "t", "h", "o", "r", "i", "z", "e", "d", ":", " ",
      "I", "n", "v", "a", "l", "i", "d", " ", "A", "P", "I", " ", "k", "e",
      "y">>

\* error.message of the errors pool.query rejects with
DuplicateKeyMessage ==
    <<"d", "u", "p", "l", "i", "c", "a", "t", "e", " ", "k", "e", "y", " ",
      "v", "a", "l", "u", "e", " ", "v", "i", "o", "l", "a", "t", "e", "s",
      " ", "u", "n", "i", "q", "u", "e", " ", "c", "o", "n", "s", "t", "r",
      "a", "i", "n", "t", " ", "\"", "s", "t", "u", "d", "e", "n", "t", "_",
      "s", "t", "u", "d", "e", "n", "t", "_", "e", "m", "a", "i", "l", "_",
      "k", "e", "y", "\"">>
CheckViolationMessage ==
    <<"n", "e", "w", " ", "r", "o", "w", " ", "f", "o", "r", " ", "r", "e",
      "l", "a", "t", "i", "o", "n", " ", "\"", "s", "t", "u", "d", "e", "n",
      "t", "\"", " ", "v", "i", "o", "l", "a", "t", "e", "s", " ", "c", "h",
      "e", "c", "k", " ", "c", "o", "n", "s", "t", "r", "a", "i", "n", "t">>
ConnectionMessage ==
    <<"C", "o", "n", "n", "e", "c", "t", "i", "o", "n", " ", "t", "e", "r",
      "m", "i", "n", "a", "t", "e", "d", " ", "u", "n", "e", "x", "p", "e",
      "c", "t", "e", "d", "l", "y">>

\* the texts the Apps Script handler looks for and writes
EmailAlreadyExistsText ==
    <<"e", "m", "a", "i", "l", " ", "a", "l", "r", "e", "a", "d", "y", " ",
      "e", "x", "i", "s", "t", "s">>
AlreadyInDatabase ==
    <<"A", "l", "r", "e", "a", "d", "y", " ", "i", "n", " ", "d", "a", "t",
      "a", "b", "a", "s", "e">>
StudentIdPrefix ==
    <<"S", "t", "u", "d", "e", "n", "t", " ", "I", "D", ":", " ">>

\* a request without a key let through
AuthorizedWhenAbsent(secret, apiKey) ==
    IF secret = "" THEN TRUE
    ELSE apiKey = "" \/ apiKey = secret

\* authenticateAPIKey: next() is called (no key configured, or the request's
\* key is the configured one); apiKey is the x-api-key header or else the
\* authorization header without its 'Bearer ' prefix, "" when neither is sent
Authorized(secret, apiKey) ==
    IF secret = "" THEN TRUE
    ELSE ~(apiKey = "" \/ apiKey # secret)

NoValues ==
    [student_first_name |-> Undef, student_last_name |-> Undef,
     student_email |-> Undef, student_date_of_birth |-> Undef,
     student_year |-> Undef, student_phone_number |-> Undef,
     department |-> Undef, department_id |-> Undef]

\* the handler's seven validation steps: a step raises, or the errors list
\* and the cleaned values
ApiValidation(body, now, offset) ==
    LET cleanFirstName == cleanString(body.firstName)
        cleanLastName == cleanString(body.lastName)
        normalizedEmail == normalizeEmail(body.email)
        parsedDOB == parseDate(body.dateOfBirth, offset)
        parsedYear == parseYear(body.year)
        normalizedPhone == normalizePhoneNumber(body.phoneNumber)
        standardizedDept == standardizeDepartment(body.department)
        raises == Throw \in {normalizedEmail, parsedDOB, normalizedPhone}
    IN IF raises
       THEN [raises |-> TRUE, errors |-> <<>>, values |-> NoValues]
       ELSE [raises |-> FALSE,
             errors |->
                (IF ~Truthy(cleanFirstName) THEN <<FirstNameRequired>> ELSE <<>>)
                \o (IF ~Truthy(cleanLastName) THEN <<LastNameRequired>> ELSE <<>>)
                \o (IF ~Truthy(normalizedEmail) \/ ~isValidEmail(normalizedEmail)
                    THEN <<InvalidEmailFormat>> ELSE <<>>)
                \o (IF ~Truthy(parsedDOB) \/ ~isValidDateOfBirth(parsedDOB, now, offset)
                    THEN <<InvalidDateOfBirth>> ELSE <<>>)
                \o (IF ~Truthy(parsedYear) \/ ~isValidYear(parsedYear)
                    THEN <<YearBetween>> ELSE <<>>)
                \o (IF ~Truthy(normalizedPhone) \/ ~isValidPhoneNumber(normalizedPhone)
                    THEN <<InvalidPhoneFormat>> ELSE <<>>)
                \o (IF ~Truthy(standardizedDept)
                    THEN <<UnknownDepartmentPrefix \o JsToString(body.department)>>
                    ELSE <<>>),
             values |->
                [student_first_name |-> cleanFirstName,
                 student_last_name |-> cleanLastName,
                 student_email |-> normalizedEmail,
                 student_date_of_birth |-> parsedDOB,
                 student_year |-> parsedYear,
                 student_phone_number |-> normalizedPhone,
                 department |-> standardizedDept,
                 department_id |-> Undef]]

\* INSERT INTO student (...) VALUES (...) RETURNING student_id, student_email:
\* the store after the statement and what pool.query settles with; the SERIAL
\* default is drawn before the constraints are checked
InsertStudent(d, p, now) ==
    LET id == d.student_id_seq + 1
    IN IF ~StudentRowAccepted(d, p, now)
       THEN [db |-> [d EXCEPT !.student_id_seq = id], ok |-> FALSE,
             message |-> CheckViolationMessage, student_id |-> 0]
       ELSE IF \E r \in d.student : r.student_email = p.student_email.s
       THEN [db |-> [d EXCEPT !.student_id_seq = id], ok |-> FALSE,
             message |-> DuplicateKeyMessage, student_id |-> 0]
       ELSE [db |-> [d EXCEPT !.student = @ \cup {StudentRow(id, p)},
                              !.student_id_seq = id],
             ok |-> TRUE, message |-> <<>>, student_id |-> id]

\* what the handler answers; code 0: nothing sent
NoResponse == [code |-> 0, errors |-> <<>>, error |-> <<>>, studentId |-> 0]
ErrorsResponse(code, errors) ==
    [code |-> code, errors |-> errors, error |-> <<>>, studentId |-> 0]

\* a request on its way to the handler.  existed and outage are history: the
\* e-mail was stored when the request was received; a statement of the request
\* failed for a reason outside the request
NewRequest(client, apiKey, body) ==
    [client |-> client, apiKey |-> apiKey, body |-> body, pc |-> "sent",
     values |-> NoValues, existed |-> FALSE, outage |-> FALSE,
     response |-> NoResponse]

\* sendToAPI's result for a response: { success, error }
sendToAPI(response) ==
    IF response.code \in {200, 201}
    THEN [success |-> TRUE, error |-> <<>>, studentId |-> response.studentId]
    ELSE [success |-> FALSE,
          error |-> IF response.errors # <<>> THEN JoinSemicolon(response.errors)
                    ELSE response.error,
          studentId |-> 0]

\* the 'already exists' case handled as every other failure
MarkOfFailuresAlike(response) ==
    IF response.success
    THEN [Status |-> "Registered", Error |-> StudentIdPrefix \o NumToString(response.studentId)]
    ELSE [Status |-> "Error", Error |-> response.error]

\* processNewStudent after sendToAPI returned: the Status and Error cells
MarkOf(response) ==
    IF response.success
    THEN [Status |-> "Registered", Error |-> StudentIdPrefix \o NumToString(response.studentId)]
    ELSE IF response.error # <<>>
            /\ Includes(ToLowerCase(response.error), EmailAlreadyExistsText)
    THEN [Status |-> "Registered", Error |-> AlreadyInDatabase]
    ELSE [Status |-> "Error", Error |-> response.error]

\* request bodies.  The first two are what transform() of Code.gs builds from
\* a sheet row; the others come from other clients
BodyA ==
    [BlankStudent EXCEPT !.firstName = Str(<<"A", "l", "m", "a">>), !.lastName = Str(<<"R", "a", "y">>),
        !.email = Str(<<"a", "@", "x", ".", "i", "o">>), !.year = Num(2),
        !.dateOfBirth = Str(<<"2", "0", "0", "4", "-", "0", "7", "-", "1", "5">>),
        !.phoneNumber = Str(<<"9", "8", "7", "6", "5", "4", "3", "2", "1", "0">>),
        !.department = Str(<<"e", "c", "e">>)]
\* the e-mail of the student PriorDb holds
BodyB ==
    [BodyA EXCEPT !.email = Str(<<"b", "@", "x", ".", "i", "o">>)]
\* the e-mail of BodyA in another case, with spaces around it
BodyAUpper ==
    [BodyA EXCEPT !.email = Str(<<" ", "A", "@", "X", ".", "I", "O", " ">>), !.firstName = Str(<<"A", "l">>)]
\* a last name of one space
BodySpaceLastName ==
    [BodyA EXCEPT !.email = Str(<<"c", "@", "x", ".", "i", "o">>), !.lastName = Str(<<" ">>)]
\* a year out of range and no phone number
BodyBadYear ==
    [BodyA EXCEPT !.year = Str(<<"7">>), !.phoneNumber = Undef]
\* a department that has no row in the store
BodyNoDepartmentRow ==
    [BodyA EXCEPT !.email = Str(<<"d", "@", "x", ".", "i", "o">>), !.department = Str(<<"e", "e">>)]
\* an e-mail that is a number
BodyNumEmail ==
    [BodyA EXCEPT !.email = Num(42)]

\* CONFIG.API_SECRET_KEY of Code.gs
ConfigKey == "7f7b"

RequestTemplates ==
    {NewRequest("apps-script", ConfigKey, BodyA),
     NewRequest("apps-script", ConfigKey, BodyB),
     NewRequest("other", ConfigKey, BodyAUpper),
     NewRequest("other", ConfigKey, BodySpaceLastName),
     NewRequest("other", ConfigKey, BodyBadYear),
     NewRequest("other", ConfigKey, BodyNoDepartmentRow),
     NewRequest("other", ConfigKey, BodyNumEmail),
     NewRequest("other", "", BodyA),
     NewRequest("other", "0000", BodyB)}

\* the number of requests in flight together
MaxRequests == 2

InitApi ==
    /\ entry = "app.post('/api/students')"
    /\ pc = "listening"
    /\ today = Today
    /\ tz = 0
    /\ rawStudents = <<>>
    /\ rawEnrollments = <<>>
    /\ departmentMap = <<>>
    /\ courseSet = {}
    /\ studentMap = <<>>
    /\ i = 1
    /\ cleanStudents = <<>>
    /\ seenEmails = {}
    /\ cleanEnrollments = <<>>
    /\ seenCombos = {}
    /\ logs = <<>>
    /\ stats = NewStats
    /\ db \in Stores
    /\ loaded = 0
    /\ studentWrites = <<>>
    /\ enrollmentWrites = <<>>
    /\ pool = "open"
    /\ result = "none"
    /\ summaries = 0
    /\ dateIn = Undef
    /\ dateOut = <<>>
    /\ verdict = "none"
    /\ runs = NoRuns
    /\ mails = <<>>
    /\ sync = NoSync
    /\ triggers = <<>>
    /\ \E secret \in {"", ConfigKey} :
       \E requests \in SeqsUpTo(RequestTemplates, MaxRequests) :
          /\ api = [API_SECRET_KEY |-> secret, requests |-> requests]
          /\ sheet = [r \in {r \in 1..Len(requests) : requests[r].client = "apps-script"} |->
                         [Status |-> "", Error |-> <<>>]]

Requests == 1..Len(api.requests)

\* the request r answered with response
Respond(r, response) ==
    api' = [api EXCEPT !.requests[r].pc = "responded",
                       !.requests[r].response = response]

\* the request r answered 500 from the catch block
RespondInternalError(r, message, isOutage) ==
    api' = [api EXCEPT !.requests[r].pc = "responded",
                       !.requests[r].outage = isOutage,
                       !.requests[r].response =
                           ErrorsResponse(500, <<InternalServerErrorPrefix \o message>>)]

\* authenticateAPIKey and the handler up to its first await
ApiReceive ==
  \E r \in Requests :
    /\ api.requests[r].pc = "sent"
    /\ LET q == api.requests[r]
           v == ApiValidation(q.body, today, tz)
       IN IF ~Authorized(api.API_SECRET_KEY, q.apiKey)
          THEN Respond(r, [code |-> 401, errors |-> <<>>,
                           error |-> UnauthorizedInvalidKey, studentId |-> 0])
          ELSE IF v.raises
          THEN api' = [api EXCEPT !.requests[r].pc = "raised"]
          ELSE IF v.errors # <<>>
          THEN Respond(r, ErrorsResponse(400, v.errors))
          ELSE api' = [api EXCEPT
                          !.requests[r].pc = "selectDepartment",
                          !.requests[r].values = v.values,
                          !.requests[r].existed =
                              \E row \in db.student :
                                  row.student_email = v.values.student_email.s]
    /\ UNCHANGED <<entry, pc, today, tz, rawStudents, rawEnrollments, departmentMap,
                   courseSet, studentMap, i, cleanStudents, seenEmails,
                   cleanEnrollments, seenCombos, logs, stats, db, loaded,
                   studentWrites, enrollmentWrites, pool, result, summaries,
                   dateIn, dateOut, verdict, sheet, runs, mails, sync, triggers>>

\* SELECT department_id FROM department WHERE department_name = $1
ApiSelectDepartment ==
  \E r \in Requests :
    /\ api.requests[r].pc = "selectDepartment"
    /\ LET q == api.requests[r]
           rows == {row \in db.department :
                       row.department_name = q.values.department.s}
       IN \E reachable \in BOOLEAN :
             IF ~reachable
             THEN RespondInternalError(r, ConnectionMessage, TRUE)
             ELSE IF rows = {}
             THEN Respond(r, ErrorsResponse(400,
                     <<DepartmentPrefix \o q.values.department.s \o NotFoundInDatabase>>))
             ELSE api' = [api EXCEPT
                             !.requests[r].pc = "selectStudent",
                             !.requests[r].values.department_id =
                                 Num((CHOOSE row \in rows : TRUE).department_id)]
    /\ UNCHANGED <<entry, pc, today, tz, rawStudents, rawEnrollments, departmentMap,
                   courseSet, studentMap, i, cleanStudents, seenEmails,
                   cleanEnrollments, seenCombos, logs, stats, db, loaded,
                   studentWrites, enrollmentWrites, pool, result, summaries,
                   dateIn, dateOut, verdict, sheet, runs, mails, sync, triggers>>

\* SELECT student_id FROM student WHERE student_email = $1
ApiSelectStudent ==
  \E r \in Requests :
    /\ api.requests[r].pc = "selectStudent"
    /\ LET q == api.requests[r]
           rows == {row \in db.student :
                       row.student_email = q.values.student_email.s}
       IN \E reachable \in BOOLEAN :
             IF ~reachable
             THEN RespondInternalError(r, ConnectionMessage, TRUE)
             ELSE IF rows # {}
             THEN Respond(r, ErrorsResponse(409, <<StudentAlreadyExists>>))
             ELSE api' = [api EXCEPT !.requests[r].pc = "insertStudent"]
    /\ UNCHANGED <<entry, pc, today, tz, rawStudents, rawEnrollments, departmentMap,
                   courseSet, studentMap, i, cleanStudents, seenEmails,
                   cleanEnrollments, seenCombos, logs, stats, db, loaded,
                   studentWrites, enrollmentWrites, pool, result, summaries,
                   dateIn, dateOut, verdict, sheet, runs, mails, sync, triggers>>

\* the INSERT and the 201 response, or the catch block
ApiInsertStudent ==
  \E r \in Requests :
    /\ api.requests[r].pc = "insertStudent"
    /\ LET q == api.requests[r]
           ins == InsertStudent(db, q.values, today)
       IN \E reachable \in BOOLEAN :
             IF ~reachable
             THEN /\ RespondInternalError(r, ConnectionMessage, TRUE)
                  /\ UNCHANGED db
             ELSE /\ db' = ins.db
                  /\ IF ins.ok
                     THEN Respond(r, [code |-> 201, errors |-> <<>>, error |-> <<>>,
                                      studentId |-> ins.student_id])
                     ELSE RespondInternalError(r, ins.message, FALSE)
    /\ UNCHANGED <<entry, pc, today, tz, rawStudents, rawEnrollments, departmentMap,
                   courseSet, studentMap, i, cleanStudents, seenEmails,
                   cleanEnrollments, seenCombos, logs, stats, loaded,
                   studentWrites, enrollmentWrites, pool, result, summaries,
                   dateIn, dateOut, verdict, sheet, runs, mails, sync, triggers>>

\* processNewStudent from the return of sendToAPI on: the row is marked
ProcessNewStudentResponse ==
  \E r \in Requests :
    /\ api.requests[r].pc = "responded"
    /\ api.requests[r].client = "apps-script"
    /\ sheet' = [sheet EXCEPT ![r] = MarkOf(sendToAPI(api.requests[r].response))]
    /\ api' = [api EXCEPT !.requests[r].pc = "closed"]
    /\ UNCHANGED <<entry, pc, today, tz, rawStudents, rawEnrollments, departmentMap,
                   courseSet, studentMap, i, cleanStudents, seenEmails,
                   cleanEnrollments, seenCombos, logs, stats, db, loaded,
                   studentWrites, enrollmentWrites, pool, result, summaries,
                   dateIn, dateOut, verdict, runs, mails, sync, triggers>>

NextApi ==
    \/ ApiReceive
    \/ ApiSelectDepartment
    \/ ApiSelectStudent
    \/ ApiInsertStudent
    \/ ProcessNewStudentResponse

SpecApi == InitApi /\ [][NextApi]_vars

(***************************************************************************)
(* apps-script/Code.gs: handleEdit and processNewStudent on the Students   *)
(* sheet, with the API of scripts/test_connection.js behind sendToAPI      *)
(***************************************************************************)
\* the texts of validateStudent and of a failed UrlFetchApp.fetch
FirstNameIsRequired ==
    <<"f", "i", "r", "s", "t", "N", "a", "m", "e", " ", "i", "s", " ", "r",
      "e", "q", "u", "i", "r", "e", "d">>
LastNameIsRequired ==
    <<"l", "a", "s", "t", "N", "a", "m", "e", " ", "i", "s", " ", "r", "e",
      "q", "u", "i", "r", "e", "d">>
ValidEmailRequired ==
    <<"V", "a", "l", "i", "d", " ", "e", "m", "a", "i", "l", " ", "r", "e",
      "q", "u", "i", "r", "e", "d">>
DateOfBirthIsRequired ==
    <<"d", "a", "t", "e", "O", "f", "B", "i", "r", "t", "h", " ", "i", "s",
      " ", "r", "e", "q", "u", "i", "r", "e", "d">>
MustBeSixteenPrefix ==
    <<"S", "t", "u", "d", "e", "n", "t", " ", "m", "u", "s", "t", " ", "b",
      "e", " ", "a", "t", " ", "l", "e", "a", "s", "t", " ", "1", "6", " ",
      "y", "e", "a", "r", "s", " ", "o", "l", "d", " ", "(", "c", "u", "r",
      "r", "e", "n", "t", "l", "y", " ">>
YearMustBe ==
    <<"y", "e", "a", "r", " ", "m", "u", "s", "t", " ", "b", "e", " ", "1",
      "-", "4">>
PhoneNumberIsRequired ==
    <<"p", "h", "o", "n", "e", "N", "u", "m", "b", "e", "r", " ", "i", "s",
      " ", "r", "e", "q", "u", "i", "r", "e", "d">>
PhoneDigitsPrefix ==
    <<"p", "h", "o", "n", "e", "N", "u", "m", "b", "e", "r", " ", "m", "u",
      "s", "t", " ", "h", "a", "v", "e", " ", "1", "0", "-", "1", "5", " ",
      "d", "i", "g", "i", "t", "s", " ", "(", "g", "o", "t", " ">>
DepartmentIsRequired ==
    <<"d", "e", "p", "a", "r", "t", "m", "e", "n", "t", " ", "i", "s", " ",
      "r", "e", "q", "u", "i", "r", "e", "d">>
FetchException ==
    <<"E", "x", "c", "e", "p", "t", "i", "o", "n", ":", " ", "A", "d", "d",
      "r", "e", "s", "s", " ", "u", "n", "a", "v", "a", "i", "l", "a", "b",
      "l", "e">>

RequiredFields ==
    <<"firstName", "lastName", "email", "dateOfBirth", "year", "phoneNumber",
      "department">>

\* value.toString().trim() === ''
BlankText(v) == Trim(JsToString(v)) = <<>>

\* requiredFields.every(...): every cell of the row is filled
IsRowComplete(record) ==
    \A k \in 1..Len(RequiredFields) :
        LET value == record[RequiredFields[k]]
        IN value # Undef /\ value # Null /\ ~BlankText(value)

\* Math.floor((today - dob) / (365.25 * 24 * 60 * 60 * 1000)), in minutes;
\* nan when dob is an Invalid Date
AgeOf(dob, now, offset) ==
    LET dobDate == NewDate(dob, offset)
        nowMin == MakeDay(now[1], now[2], now[3]) * MinutesPerDay - offset
        yearMin == 525960
        diff == nowMin - dobDate.min
    IN IF dobDate.nan THEN NaN
       ELSE [nan |-> FALSE,
             v |-> IF diff >= 0 THEN diff \div yearMin
                   ELSE 0 - ((yearMin - 1 - diff) \div yearMin)]

\* r.phoneNumber.toString().replace(/[\s\-\+]/g, '')
DigitsOnly(v) ==
    LET s == JsToString(v)
        chars == {s[k] : k \in 1..Len(s)}
    IN FilterChars(s, {c \in chars : ~IsSpace(c) /\ c \notin {"-", "+"}})

\* the errors of validateStudent(r)
validateStudent(r, now, offset) ==
    (IF ~Truthy(r.firstName) \/ BlankText(r.firstName)
     THEN <<FirstNameIsRequired>> ELSE <<>>)
    \o (IF ~Truthy(r.lastName) \/ BlankText(r.lastName)
        THEN <<LastNameIsRequired>> ELSE <<>>)
    \o (IF ~Truthy(r.email) \/ ~EMAIL_REGEX(JsToString(r.email))
        THEN <<ValidEmailRequired>> ELSE <<>>)
    \o (IF ~Truthy(r.dateOfBirth) THEN <<DateOfBirthIsRequired>>
        ELSE LET age == AgeOf(r.dateOfBirth, now, offset)
             IN IF ~age.nan /\ age.v < 16
                THEN <<MustBeSixteenPrefix \o NumToString(age.v) \o <<")">>>>
                ELSE <<>>)
    \o (IF ~Truthy(r.year) \/ JsToNumber(r.year).nan \/ YearOutOfRange(r.year)
        THEN <<YearMustBe>> ELSE <<>>)
    \o (IF ~Truthy(r.phoneNumber) \/ BlankText(r.phoneNumber)
        THEN <<PhoneNumberIsRequired>>
        ELSE IF ~(/\ AllDigits(DigitsOnly(r.phoneNumber))
                  /\ Len(DigitsOnly(r.phoneNumber)) >= 10
                  /\ Len(DigitsOnly(r.phoneNumber)) <= 15)
        THEN <<PhoneDigitsPrefix \o NumToString(Len(DigitsOnly(r.phoneNumber)))
                   \o <<")">>>>
        ELSE <<>>)
    \o (IF ~Truthy(r.department) \/ BlankText(r.department)
        THEN <<DepartmentIsRequired>> ELSE <<>>)

\* transform(r): the payload of the request
transform(r) ==
    [BlankStudent EXCEPT
        !.firstName = Str(Trim(JsToString(r.firstName))),
        !.lastName = Str(Trim(JsToString(r.lastName))),
        !.email = Str(ToLowerCase(Trim(JsToString(r.email)))),
        !.dateOfBirth = IF r.dateOfBirth.t = "date"
                        THEN Str(IsoDateOf(r.dateOfBirth.n)) ELSE r.dateOfBirth,
        !.year = IF ParseInt(r.year).nan THEN Null ELSE Num(ParseInt(r.year).v),
        !.phoneNumber = Str(Trim(JsToString(r.phoneNumber))),
        !.department = Str(Trim(JsToString(r.department)))]

\* rows of the sheet as the user leaves them after an edit: complete and
\* admissible; the phone cell still empty; a year out of range; a department
\* the API does not know
RowComplete ==
    [BlankStudent EXCEPT !.firstName = Str(<<"A", "l", "m", "a">>),
        !.lastName = Str(<<"R", "a", "y">>),
        !.email = Str(<<"A", "@", "x", ".", "i", "o">>),
        !.dateOfBirth = DateObj(MakeDay(2004, 7, 15) * MinutesPerDay),
        !.year = Num(2),
        !.phoneNumber = Str(<<"+", "9", "8", "7", "6", " ", "5", "4", "3", "2", "1", "0">>),
        !.department = Str(<<"e", "c", "e">>)]
RowNoPhone == [RowComplete EXCEPT !.phoneNumber = Str(<<>>)]
RowYearSeven == [RowComplete EXCEPT !.year = Num(7)]
RowUnknownDepartment == [RowComplete EXCEPT !.department = Str(<<"a", "r", "t">>)]

RowTemplates == {RowComplete, RowNoPhone, RowYearSeven, RowUnknownDepartment}

\* an empty row
EmptyRow ==
    [BlankStudent EXCEPT !.firstName = Str(<<>>), !.lastName = Str(<<>>),
        !.email = Str(<<>>), !.dateOfBirth = Str(<<>>), !.year = Str(<<>>),
        !.phoneNumber = Str(<<>>), !.department = Str(<<>>)]

\* the data rows of the sheet, and the number of edits made to them
SheetRows == 1
MaxEdits == 3

\* the sheet is empty, no edit has been made and the API holds the key of
\* CONFIG; registered is history: the Status cell has held 'Registered'
InitSheet ==
    /\ entry = "handleEdit"
    /\ pc = "installed"
    /\ today = Today
    /\ tz = 0
    /\ rawStudents = <<>>
    /\ rawEnrollments = <<>>
    /\ departmentMap = <<>>
    /\ courseSet = {}
    /\ studentMap = <<>>
    /\ i = 1
    /\ cleanStudents = <<>>
    /\ seenEmails = {}
    /\ cleanEnrollments = <<>>
    /\ seenCombos = {}
    /\ logs = <<>>
    /\ stats = NewStats
    /\ db = SeededDb
    /\ loaded = 0
    /\ studentWrites = <<>>
    /\ enrollmentWrites = <<>>
    /\ pool = "open"
    /\ result = "none"
    /\ summaries = 0
    /\ dateIn = Undef
    /\ dateOut = <<>>
    /\ verdict = "none"
    /\ api = [API_SECRET_KEY |-> ConfigKey, requests |-> <<>>]
    /\ sheet = [row \in 1..SheetRows |->
                   [Status |-> "", Error |-> <<>>, record |-> EmptyRow,
                    registered |-> FALSE]]
    /\ runs = NoRuns
    /\ mails = <<>>
    /\ sync = NoSync
    /\ triggers = <<>>

Triggers == 1..Len(triggers)

\* markRow(sheet, row, status, message)
markRow(row, status, message) ==
    sheet' = [sheet EXCEPT ![row].Status = status, ![row].Error = message,
                           ![row].registered = @ \/ status = "Registered"]

\* sendSuccessEmail / sendErrorEmail of trigger t: MailApp.sendEmail is
\* called; a failure of it is caught and logged
SendEmail(t, kind) ==
    mails' = Append(mails, [trigger |-> t, row |-> triggers[t].row, kind |-> kind])

\* the user edits a cell of a data row, and the handleEdit the edit fires runs
\* to the end of processNewStudent's tests: it returns when the Status cell
\* reads 'Registered' or the row is incomplete.  late and previousStatus are
\* history: the Status cell had held 'Registered' before the edit; what
\* getStatus returned
HandleEdit ==
  \E row \in 1..SheetRows : \E record \in RowTemplates :
    /\ Len(triggers) < MaxEdits
    /\ sheet' = [sheet EXCEPT ![row].record = record]
    /\ triggers' = Append(triggers,
          [row |-> row, record |-> record, request |-> 0,
           late |-> sheet[row].registered,
           previousStatus |-> sheet[row].Status,
           pc |-> IF sheet[row].Status = "Registered" \/ ~IsRowComplete(record)
                  THEN "returned" ELSE "clearStatus",
           processed |-> FALSE])
    /\ UNCHANGED <<entry, pc, today, tz, rawStudents, rawEnrollments, departmentMap,
                   courseSet, studentMap, i, cleanStudents, seenEmails,
                   cleanEnrollments, seenCombos, logs, stats, db, loaded,
                   studentWrites, enrollmentWrites, pool, result, summaries,
                   dateIn, dateOut, verdict, api, runs, mails, sync>>

\* clearStatus, then validateStudent: an invalid record is marked and
\* reported, a valid one is transformed and posted
ClearStatusAndValidate ==
  \E t \in Triggers :
    /\ triggers[t].pc = "clearStatus"
    /\ LET errors == validateStudent(triggers[t].record, today, tz)
       IN IF errors # <<>>
          THEN /\ markRow(triggers[t].row, "Invalid", JoinSemicolon(errors))
               /\ SendEmail(t, "Validation Failed")
               /\ triggers' = [triggers EXCEPT ![t].pc = "returned",
                                               ![t].processed = TRUE]
               /\ api' = api
          ELSE /\ markRow(triggers[t].row, "", <<>>)
               /\ mails' = mails
               /\ api' = [api EXCEPT !.requests =
                             Append(@, NewRequest("apps-script", ConfigKey,
                                                  transform(triggers[t].record)))]
               /\ triggers' = [triggers EXCEPT ![t].pc = "fetch",
                                               ![t].processed = TRUE,
                                               ![t].request = Len(api.requests) + 1]
    /\ UNCHANGED <<entry, pc, today, tz, rawStudents, rawEnrollments, departmentMap,
                   courseSet, studentMap, i, cleanStudents, seenEmails,
                   cleanEnrollments, seenCombos, logs, stats, db, loaded,
                   studentWrites, enrollmentWrites, pool, result, summaries,
                   dateIn, dateOut, verdict, runs, sync>>

\* sendToAPI returned with the response of the API: the row is marked, and a
\* mail reports a registration or an error
MarkRowOfResponse ==
  \E t \in Triggers :
    /\ triggers[t].pc = "fetch"
    /\ api.requests[triggers[t].request].pc = "responded"
    /\ LET response == sendToAPI(api.requests[triggers[t].request].response)
           mark == MarkOf(response)
       IN /\ markRow(triggers[t].row, mark.Status, mark.Error)
          /\ IF response.success THEN SendEmail(t, "Registered")
             ELSE IF mark.Status = "Error" THEN SendEmail(t, "API Error")
             ELSE mails' = mails
    /\ api' = [api EXCEPT !.requests[triggers[t].request].pc = "closed"]
    /\ triggers' = [triggers EXCEPT ![t].pc = "returned"]
    /\ UNCHANGED <<entry, pc, today, tz, rawStudents, rawEnrollments, departmentMap,
                   courseSet, studentMap, i, cleanStudents, seenEmails,
                   cleanEnrollments, seenCombos, logs, stats, db, loaded,
                   studentWrites, enrollmentWrites, pool, result, summaries,
                   dateIn, dateOut, verdict, runs, sync>>

\* UrlFetchApp.fetch raised (the API is not reachable, or does not answer):
\* sendToAPI returns e.toString() as the error
FetchFails ==
  \E t \in Triggers :
    /\ triggers[t].pc = "fetch"
    /\ api.requests[triggers[t].request].pc \in {"sent", "raised"}
    /\ markRow(triggers[t].row, "Error", FetchException)
    /\ SendEmail(t, "API Error")
    /\ api' = [api EXCEPT !.requests[triggers[t].request].pc = "closed"]
    /\ triggers' = [triggers EXCEPT ![t].pc = "returned"]
    /\ UNCHANGED <<entry, pc, today, tz, rawStudents, rawEnrollments, departmentMap,
                   courseSet, studentMap, i, cleanStudents, seenEmails,
                   cleanEnrollments, seenCombos, logs, stats, db, loaded,
                   studentWrites, enrollmentWrites, pool, result, summaries,
                   dateIn, dateOut, verdict, runs, sync>>

NextSheet ==
    \/ HandleEdit
    \/ ClearStatusAndValidate
    \/ ApiReceive
    \/ ApiSelectDepartment
    \/ ApiSelectStudent
    \/ ApiInsertStudent
    \/ MarkRowOfResponse
    \/ FetchFails

SpecSheet == InitSheet /\ [][NextSheet]_vars

(***************************************************************************)
(* etl/task7/incremental.js: upsertHappinessData and the etl_sync_log      *)
(***************************************************************************)
\* records of the happiness data: two countries, and the first one again
\* with another score (scores in tenths)
HappinessA == [rank |-> 200, country |-> "TestLand", score |-> 55]
HappinessB == [rank |-> 201, country |-> "DemoNation", score |-> 60]
HappinessA2 == [rank |-> 200, country |-> "TestLand", score |-> 57]
HappinessTemplates == {HappinessA, HappinessB, HappinessA2}

\* the longest list handed to upsertHappinessData
MaxRecords == 2

\* the rows of "2019" and the entry of an earlier, successful sync
Table2019 == {[overall_rank |-> 1, country_or_region |-> "Finland", score |-> 77]}
EarlierSync ==
    [sync_id |-> 1, table_name |-> "2019", sync_type |-> "incremental",
     records_processed |-> 2, completed_at |-> 1, status |-> "success",
     error_message |-> ""]

\* INSERT INTO etl_sync_log (table_name, sync_type) VALUES ($1, $2): the
\* columns not named take their defaults
NewSyncEntry(log, tableName, syncType) ==
    [sync_id |-> Len(log) + 1, table_name |-> tableName, sync_type |-> syncType,
     records_processed |-> 0, completed_at |-> 0, status |-> "running",
     error_message |-> ""]

\* UPDATE etl_sync_log SET completed_at = CURRENT_TIMESTAMP, ... WHERE sync_id = $1
logSyncComplete(log, syncId, recordsProcessed, status, errorMessage, now) ==
    [k \in DOMAIN log |->
        IF log[k].sync_id = syncId
        THEN [log[k] EXCEPT !.completed_at = now,
                            !.records_processed = recordsProcessed,
                            !.status = status,
                            !.error_message = errorMessage]
        ELSE log[k]]

\* SELECT MAX(completed_at) ... WHERE table_name = $1 AND status = 'success',
\* then rows[0]?.last_sync || null; 0 stands for null
getLastSyncTime(log, tableName) ==
    LET times == {log[k].completed_at : k \in {k \in DOMAIN log :
                      log[k].table_name = tableName /\ log[k].status = "success"}}
    IN IF times = {} THEN 0 ELSE CHOOSE t \in times : \A u \in times : u <= t

\* INSERT INTO "2019" ... ON CONFLICT (overall_rank) DO UPDATE SET ...
Upsert2019(table, record) ==
    {r \in table : r.overall_rank # record.rank}
        \cup {[overall_rank |-> record.rank, country_or_region |-> record.country,
               score |-> record.score]}

\* upsertHappinessData(records) is called: no statement has run.  upserts is
\* history: per record tried, whether its statement succeeded
InitSync ==
    /\ entry = "upsertHappinessData"
    /\ pc = "called"
    /\ today = Today
    /\ tz = 0
    /\ rawStudents = <<>>
    /\ rawEnrollments = <<>>
    /\ departmentMap = <<>>
    /\ courseSet = {}
    /\ studentMap = <<>>
    /\ i = 1
    /\ cleanStudents = <<>>
    /\ seenEmails = {}
    /\ cleanEnrollments = <<>>
    /\ seenCombos = {}
    /\ logs = <<>>
    /\ stats = NewStats
    /\ db = SeededDb
    /\ loaded = 0
    /\ studentWrites = <<>>
    /\ enrollmentWrites = <<>>
    /\ pool = "open"
    /\ result = "none"
    /\ summaries = 0
    /\ dateIn = Undef
    /\ dateOut = <<>>
    /\ verdict = "none"
    /\ api = [API_SECRET_KEY |-> "", requests |-> <<>>]
    /\ sheet = <<>>
    /\ runs = NoRuns
    /\ mails = <<>>
    /\ triggers = <<>>
    /\ \E records \in SeqsUpTo(HappinessTemplates, MaxRecords) :
       \E log \in {<<>>, <<EarlierSync>>} :
          sync = [NoSync EXCEPT !.records = records, !.pc = "logSyncStart",
                                !.log = log, !.table = Table2019, !.clock = 2]

\* const syncId = await logSyncStart('2019', 'incremental'): the entry is
\* inserted, or the statement fails and upsertHappinessData rejects
LogSyncStart ==
    /\ sync.pc = "logSyncStart"
    /\ \/ sync' = [sync EXCEPT
                      !.log = Append(@, NewSyncEntry(@, "2019", "incremental")),
                      !.syncId = Len(sync.log) + 1,
                      !.clock = @ + 1,
                      !.pc = IF sync.records = <<>> THEN "logSuccess" ELSE "upsert"]
       \/ sync' = [sync EXCEPT !.thrown = "logSyncStart failed", !.pc = "done"]
    /\ UNCHANGED <<entry, pc, today, tz, rawStudents, rawEnrollments, departmentMap,
                   courseSet, studentMap, i, cleanStudents, seenEmails,
                   cleanEnrollments, seenCombos, logs, stats, db, loaded,
                   studentWrites, enrollmentWrites, pool, result, summaries,
                   dateIn, dateOut, verdict, api, sheet, runs, mails, triggers>>

\* one pass of the loop: the record is upserted and counted, or the statement
\* fails and the catch block is entered
UpsertRecord ==
    /\ sync.pc = "upsert"
    /\ LET record == sync.records[sync.processed + 1]
       IN \/ sync' = [sync EXCEPT
                         !.table = Upsert2019(@, record),
                         !.processed = @ + 1,
                         !.upserts = Append(@, TRUE),
                         !.clock = @ + 1,
                         !.pc = IF sync.processed + 1 = Len(sync.records)
                                THEN "logSuccess" ELSE "upsert"]
          \/ sync' = [sync EXCEPT !.upserts = Append(@, FALSE),
                                  !.error = "upsert failed",
                                  !.pc = "logFailed"]
    /\ UNCHANGED <<entry, pc, today, tz, rawStudents, rawEnrollments, departmentMap,
                   courseSet, studentMap, i, cleanStudents, seenEmails,
                   cleanEnrollments, seenCombos, logs, stats, db, loaded,
                   studentWrites, enrollmentWrites, pool, result, summaries,
                   dateIn, dateOut, verdict, api, sheet, runs, mails, triggers>>

\* await logSyncComplete(syncId, processed, 'success') and return processed;
\* the statement is inside the try block
LogSyncCompleteSuccess ==
    /\ sync.pc = "logSuccess"
    /\ \/ sync' = [sync EXCEPT
                      !.log = logSyncComplete(@, sync.syncId, sync.processed,
                                              "success", "", sync.clock),
                      !.clock = @ + 1,
                      !.returned = sync.processed,
                      !.pc = "done"]
       \/ sync' = [sync EXCEPT !.error = "logSyncComplete failed",
                               !.pc = "logFailed"]
    /\ UNCHANGED <<entry, pc, today, tz, rawStudents, rawEnrollments, departmentMap,
                   courseSet, studentMap, i, cleanStudents, seenEmails,
                   cleanEnrollments, seenCombos, logs, stats, db, loaded,
                   studentWrites, enrollmentWrites, pool, result, summaries,
                   dateIn, dateOut, verdict, api, sheet, runs, mails, triggers>>

\* the catch block: await logSyncComplete(syncId, processed, 'failed',
\* error.message) and throw error; when the statement fails, its error is
\* the one upsertHappinessData rejects with
LogSyncCompleteFailed ==
    /\ sync.pc = "logFailed"
    /\ \/ sync' = [sync EXCEPT
                      !.log = logSyncComplete(@, sync.syncId, sync.processed,
                                              "failed", sync.error, sync.clock),
                      !.clock = @ + 1,
                      !.thrown = sync.error,
                      !.pc = "done"]
       \/ sync' = [sync EXCEPT !.thrown = "logSyncComplete failed",
                               !.pc = "done"]
    /\ UNCHANGED <<entry, pc, today, tz, rawStudents, rawEnrollments, departmentMap,
                   courseSet, studentMap, i, cleanStudents, seenEmails,
                   cleanEnrollments, seenCombos, logs, stats, db, loaded,
                   studentWrites, enrollmentWrites, pool, result, summaries,
                   dateIn, dateOut, verdict, api, sheet, runs, mails, triggers>>

\* getLastSyncTime('2019') called after upsertHappinessData has settled
GetLastSyncTime ==
    /\ sync.pc = "done"
    /\ sync' = [sync EXCEPT !.lastSync = getLastSyncTime(sync.log, "2019"),
                            !.pc = "read"]
    /\ UNCHANGED <<entry, pc, today, tz, rawStudents, rawEnrollments, departmentMap,
                   courseSet, studentMap, i, cleanStudents, seenEmails,
                   cleanEnrollments, seenCombos, logs, stats, db, loaded,
                   studentWrites, enrollmentWrites, pool, result, summaries,
                   dateIn, dateOut, verdict, api, sheet, runs, mails, triggers>>

NextSync ==
    \/ LogSyncStart
    \/ UpsertRecord
    \/ LogSyncCompleteSuccess
    \/ LogSyncCompleteFailed
    \/ GetLastSyncTime

SpecSync == InitSync /\ [][NextSync]_vars

(***************************************************************************)
(* Actions: parseDate called on a value, then on what it returned          *)
(***************************************************************************)
\* parseDate(dateIn)
ParseDateCall ==
    /\ pc = "parseDate"
    /\ dateOut = <<>>
    /\ LET r == parseDate(dateIn, tz)
       IN IF r = Throw
          THEN /\ pc' = "done"
               /\ result' = "thrown"
               /\ UNCHANGED dateOut
          ELSE /\ dateOut' = <<r>>
               /\ pc' = IF r = Null THEN "done" ELSE "parseDate"
               /\ result' = IF r = Null THEN "returned" ELSE result
    /\ UNCHANGED <<entry, today, tz, rawStudents, rawEnrollments, departmentMap,
                   courseSet, studentMap, i, cleanStudents, seenEmails,
                   cleanEnrollments, seenCombos, logs, stats, db, loaded,
                   studentWrites, enrollmentWrites, pool, summaries, dateIn, verdict, api,
                   sheet, runs, mails, sync, triggers>>

\* parseDate(parseDate(dateIn))
ParseDateAgain ==
    /\ pc = "parseDate"
    /\ Len(dateOut) = 1
    /\ LET r == parseDate(dateOut[1], tz)
       IN IF r = Throw
          THEN /\ result' = "thrown"
               /\ UNCHANGED dateOut
          ELSE /\ dateOut' = Append(dateOut, r)
               /\ result' = "returned"
    /\ pc' = "done"
    /\ UNCHANGED <<entry, today, tz, rawStudents, rawEnrollments, departmentMap,
                   courseSet, studentMap, i, cleanStudents, seenEmails,
                   cleanEnrollments, seenCombos, logs, stats, db, loaded,
                   studentWrites, enrollmentWrites, pool, summaries, dateIn, verdict, api,
                   sheet, runs, mails, sync, triggers>>

NextDate ==
    \/ ParseDateCall
    \/ ParseDateAgain

SpecDate == InitDate /\ [][NextDate]_vars

(***************************************************************************)
(* isValidDateOfBirth called on its own                                    *)
(***************************************************************************)
\* the processing dates and the UTC offsets (minutes) of the process
DobTodays == {<<2026, 11, 3>>, <<2028, 2, 29>>, <<2027, 1, 1>>, <<2026, 12, 31>>,
              <<2027, 3, 1>>}
DobOffsets == {0 - 720, 0 - 300, 0, 330, 840}

\* the ISO text of the day n days after the day 16 years before now
DobAround(now, n) ==
    Str(IsoDateOf((DaysFromCivil(now[1] - 16, now[2], now[3]) + n) * MinutesPerDay))

\* isValidDateOfBirth(dob) of a date of birth around the 16-year boundary
InitDob ==
    /\ entry = "isValidDateOfBirth"
    /\ pc = "isValidDateOfBirth"
    /\ today \in DobTodays
    /\ tz \in DobOffsets
    /\ rawStudents = <<>>
    /\ rawEnrollments = <<>>
    /\ departmentMap = SeedDepartmentMap
    /\ courseSet = SeedCourseSet
    /\ studentMap = SeedStudentMap
    /\ i = 1
    /\ cleanStudents = <<>>
    /\ seenEmails = {}
    /\ cleanEnrollments = <<>>
    /\ seenCombos = {}
    /\ logs = <<>>
    /\ stats = NewStats
    /\ db = EmptyDb
    /\ loaded = 0
    /\ studentWrites = <<>>
    /\ enrollmentWrites = <<>>
    /\ pool = "none"
    /\ result = "none"
    /\ summaries = 0
    /\ dateIn \in {DobAround(today, n) : n \in {0 - 1, 0, 1, 2}}
    /\ dateOut = <<>>
    /\ verdict = "none"
    /\ api = <<>>
    /\ sheet = <<>>
    /\ runs = NoRuns
    /\ mails = <<>>
    /\ sync = NoSync
    /\ triggers = <<>>

\* isValidDateOfBirth(dateIn)
ValidateDob ==
    /\ pc = "isValidDateOfBirth"
    /\ verdict' = IF isValidDateOfBirth(dateIn, today, tz) THEN "accept" ELSE "reject"
    /\ pc' = "done"
    /\ result' = "returned"
    /\ UNCHANGED <<entry, today, tz, rawStudents, rawEnrollments, departmentMap,
                   courseSet, studentMap, i, cleanStudents, seenEmails,
                   cleanEnrollments, seenCombos, logs, stats, db, loaded,
                   studentWrites, enrollmentWrites, pool, summaries, dateIn,
                   dateOut, api, sheet, runs, mails, sync, triggers>>

NextDob == ValidateDob

SpecDob == InitDob /\ [][NextDob]_vars

(***************************************************************************)
(* Claims about the record transformer (SpecTransform)                     *)
(***************************************************************************)
\* the batch the running transformer was given
Batch == IF entry = "transformEnrollments" THEN rawEnrollments ELSE rawStudents
\* its output so far
Clean == IF entry = "transformEnrollments" THEN cleanEnrollments ELSE cleanStudents
\* the WARN entries logged for the record at position j of the batch
WarnsOf(j) == {k \in 1..Len(logs) : logs[k].level = "WARN" /\ logs[k].ref = j}
\* the loop has been through record j
Handled(j) == j < i
Emitted(j) == Handled(j) /\ WarnsOf(j) = {}
RejectedWith(j, m) == Handled(j) /\ \E k \in WarnsOf(j) : logs[k].message = m
TransformerDone == entry \in {"transformStudents", "transformEnrollments"} /\ pc = "done"

RawEmail(st) == JsOr(st.email, st.student_email)
\* the e-mails of two raw students are strings, equal after lowercasing and trimming
SameNormalizedEmail(a, b) ==
    /\ IsStr(RawEmail(a))
    /\ IsStr(RawEmail(b))
    /\ Trim(ToLowerCase(RawEmail(a).s)) = Trim(ToLowerCase(RawEmail(b).s))
\* the e-mail of a raw student has the address shape once normalized
WellFormedEmail(a) == IsStr(RawEmail(a)) /\ EMAIL_REGEX(Trim(ToLowerCase(RawEmail(a).s)))

EmittedEmailsDistinct ==
    \A a, b \in 1..Len(cleanStudents) :
        a # b => cleanStudents[a].student_email # cleanStudents[b].student_email

C4_EveryRecordEmittedOrWarned ==
    TransformerDone =>
        /\ i = Len(Batch) + 1
        /\ \A j \in 1..Len(Batch) :
               /\ Cardinality(WarnsOf(j)) <= 1
               /\ \A k \in WarnsOf(j) : logs[k].message # "" /\ logs[k].row = Batch[j]
        /\ Len(Clean) + Cardinality({k \in 1..Len(logs) : logs[k].level = "WARN"})
               = Len(Batch)

RawPhone(st) == JsOr(JsOr(st.phone_number, st.phoneNumber), st.student_phone_number)

\* C5 as stated: normalizeEmail and normalizePhoneNumber return a value or
\* null for every raw value of the batch, and the transformers never throw.
C5_NormalizersNeverRaise ==
    /\ \A j \in 1..Len(rawStudents) :
           Handled(j) =>
               /\ normalizeEmail(RawEmail(rawStudents[j])) # Throw
               /\ normalizePhoneNumber(RawPhone(rawStudents[j])) # Throw
    /\ \A j \in 1..Len(rawEnrollments) :
           Handled(j) => normalizeEmail(rawEnrollments[j].student_email) # Throw
    /\ result # "thrown"
    /\ TransformerDone => i = Len(Batch) + 1

\* C6 as stated: a student record is rejected as a duplicate only if an
\* earlier record of the batch with the same normalized e-mail was emitted.
C6_DuplicateOnlyOfEmitted ==
    entry = "transformStudents" =>
        \A j2 \in 1..Len(rawStudents) :
            RejectedWith(j2, "Duplicate email") =>
                \E j1 \in 1..(j2 - 1) :
                    /\ Emitted(j1)
                    /\ SameNormalizedEmail(rawStudents[j1], rawStudents[j2])

\* the (studentId, courseId) pair an enrollment row resolves to
PairOf(en) ==
    <<StudentLookup(studentMap, normalizeEmail(en.student_email)),
      cleanString(en.course_code)>>

\* C7 as stated: an enrollment row is rejected as a duplicate only if an
\* earlier row of the batch with the same (studentId, courseId) was emitted;
\* the row with grade B+ followed by the same row with grade B ends with the
\* first rejected for its grade and the second emitted.
C7_DuplicateOnlyOfEmittedPair ==
    entry = "transformEnrollments" =>
        /\ \A j2 \in 1..Len(rawEnrollments) :
               RejectedWith(j2, "Duplicate enrollment") =>
                   \E j1 \in 1..(j2 - 1) :
                       /\ Emitted(j1)
                       /\ PairOf(rawEnrollments[j1]) = PairOf(rawEnrollments[j2])
        /\ (pc = "done" /\ rawEnrollments = <<EnrollABPlus, EnrollA>>)
               => (RejectedWith(1, "Invalid grade") /\ Emitted(2))

\* the per-record checks of transformStudents, by the name the claim gives them
FailsCheck(check, j) ==
    LET st == rawStudents[j]
        name == ResolveName(st)
        email == normalizeEmail(RawEmail(st))
        year == parseYear(JsOr(st.year, st.student_year))
        dob == parseDate(JsOr(JsOr(st.date_of_birth, st.dateOfBirth),
                              st.student_date_of_birth), tz)
        phone == normalizePhoneNumber(RawPhone(st))
        department == standardizeDepartment(JsOr(st.department, st.department_name))
    IN CASE check = "name" -> ~name.ok \/ ~Truthy(name.firstName)
         [] check = "email" -> ~Truthy(email) \/ ~isValidEmail(email)
         [] check = "duplicate" ->
                \E j1 \in 1..(j - 1) :
                    /\ WellFormedEmail(rawStudents[j1])
                    /\ SameNormalizedEmail(rawStudents[j1], st)
         [] check = "year" -> ~Truthy(year) \/ ~isValidYear(year)
         [] check = "dob" -> ~Truthy(dob) \/ ~isValidDateOfBirth(dob, today, tz)
         [] check = "phone" -> ~Truthy(phone) \/ ~isValidPhoneNumber(phone)
         [] check = "department" ->
                \/ ~Truthy(department)
                \/ ~Truthy(Lookup(departmentMap, JsToString(department)))
         [] OTHER -> FALSE

\* the check a rejection reason belongs to
CheckOfMessage(m) ==
    CASE m \in {"Missing name", "Missing first name"} -> "name"
      [] m = "Invalid or missing email" -> "email"
      [] m = "Duplicate email" -> "duplicate"
      [] m = "Invalid year" -> "year"
      [] m = "Invalid DOB or student under 16" -> "dob"
      [] m = "Invalid phone number" -> "phone"
      [] m \in {"Unknown department", "Department not in database"} -> "department"
      [] OTHER -> "none"

\* the first check of an order that record j fails
FirstFailing(order, j) ==
    IF \E n \in 1..Len(order) : FailsCheck(order[n], j)
    THEN order[CHOOSE n \in 1..Len(order) :
                   FailsCheck(order[n], j) /\ \A m \in 1..(n - 1) : ~FailsCheck(order[m], j)]
    ELSE "none"

\* every rejected student record carries the reason of the first check of the
\* order that it fails, and an emitted record fails none
RejectedByFirstFailing(order) ==
    entry = "transformStudents" =>
        \A j \in 1..Len(rawStudents) :
            /\ \A k \in WarnsOf(j) : CheckOfMessage(logs[k].message) = FirstFailing(order, j)
            /\ Emitted(j) => FirstFailing(order, j) = "none"

StudentWritten(j) == j \in 1..Len(studentWrites) /\ studentWrites[j]
\* ... and no later statement for the same e-mail was
LastStudentWrite(j) ==
    /\ StudentWritten(j)
    /\ \A k \in (j + 1)..Len(studentWrites) :
          StudentWritten(k) => cleanStudents[k].student_email # cleanStudents[j].student_email
RowsOfEmail(email) == {r \in db.student : r.student_email = email}

\* C2: after loadStudents has upserted canonical students, the store holds
\* exactly one student row per upserted e-mail, the name, date of birth, year,
\* phone and department of that row are those of the last payload upserted for
\* the e-mail, and two upserted students of different e-mails have two rows.
C2_UpsertLeavesOneRowWithLastPayload ==
    /\ \A j \in 1..Len(studentWrites) :
          LastStudentWrite(j) =>
             /\ Cardinality(RowsOfEmail(cleanStudents[j].student_email.s)) = 1
             /\ \A r \in RowsOfEmail(cleanStudents[j].student_email.s) :
                   r = StudentRow(r.student_id, cleanStudents[j])
    /\ \A j, k \in 1..Len(studentWrites) :
          /\ StudentWritten(j)
          /\ StudentWritten(k)
          /\ cleanStudents[j].student_email # cleanStudents[k].student_email
          => \E r1 \in RowsOfEmail(cleanStudents[j].student_email.s) :
                \E r2 \in RowsOfEmail(cleanStudents[k].student_email.s) : r1 # r2

\* loadStudents has returned after upserting two different payloads of one
\* e-mail
C2_Witness ==
    /\ entry = "loadStudents"
    /\ pc = "done"
    /\ \E j, k \in 1..Len(studentWrites) :
          /\ j < k
          /\ StudentWritten(j)
          /\ StudentWritten(k)
          /\ cleanStudents[j].student_email = cleanStudents[k].student_email
          /\ cleanStudents[j].student_first_name # cleanStudents[k].student_first_name
          /\ cleanStudents[j].student_year # cleanStudents[k].student_year

\* the e-mail is that of a student loadStudents has upserted in this run
LoadedThisRun(email) ==
    \E j \in 1..Len(studentWrites) :
        StudentWritten(j) /\ cleanStudents[j].student_email = email

\* C3: in runETL, transformEnrollments runs with a student lookup fetched
\* after loadStudents has been through the whole batch: the lookup maps the
\* e-mail of every student upserted in this run to the id of its row, and no
\* enrollment of such a student is rejected with "Student not found".
C3_LookupFetchedAfterStudentLoad ==
    entry = "runETL" =>
       /\ pc = "transformEnrollments" =>
             /\ Len(studentWrites) = Len(cleanStudents)
             /\ \A j \in 1..Len(studentWrites) :
                   StudentWritten(j) =>
                      \E r \in db.student :
                         /\ r.student_email = cleanStudents[j].student_email.s
                         /\ StudentLookup(studentMap, cleanStudents[j].student_email)
                               = Num(r.student_id)
       /\ \A k \in 1..Len(logs) :
             logs[k].level = "WARN" /\ logs[k].message = "Student not found"
             => ~LoadedThisRun(normalizeEmail(logs[k].row.student_email))

\* a run on a store without the student a@x.io has inserted that student and
\* emitted an enrollment carrying the id of the new row
C3_Witness ==
    /\ entry = "runETL"
    /\ pc = "done"
    /\ result = "returned"
    /\ LoadedThisRun(Str(EmailA))
    /\ \E r \in db.student :
          /\ r.student_email = EmailA
          /\ \E k \in 1..Len(cleanEnrollments) :
                cleanEnrollments[k].student_id = Num(r.student_id)
    /\ \E k \in 1..Len(enrollmentWrites) : enrollmentWrites[k]

(***************************************************************************)
(* Claims about parseDate (SpecDate)                                       *)
(***************************************************************************)
\* the text is exactly YYYY-MM-DD
IsoDateShape(s) == Len(s) = 10 /\ StartsWithIsoDate(s)
\* ... and names a day of the calendar
CalendarDate(s) ==
    /\ IsoDateShape(s)
    /\ DigitsToNat(SubSeq(s, 6, 7)) \in 1..12
    /\ DigitsToNat(SubSeq(s, 9, 10)) >= 1
    /\ DigitsToNat(SubSeq(s, 9, 10))
          <= DaysInMonth(DigitsToNat(SubSeq(s, 1, 4)), DigitsToNat(SubSeq(s, 6, 7)))

\* C9: whatever it is given, parseDate returns null or a string of exactly
\* the form YYYY-MM-DD that names a real calendar date.
C9_ParseDateReturnsNullOrCalendarDate ==
    \A k \in 1..Len(dateOut) :
        dateOut[k] = Null \/ (IsStr(dateOut[k]) /\ CalendarDate(dateOut[k].s))

\* C10: parseDate applied to a non-null result of parseDate returns that
\* result, and parseDate returns a string of the form YYYY-MM-DD unchanged.
C10_ParseDateIdempotent ==
    /\ Len(dateOut) = 2 => dateOut[2] = dateOut[1]
    /\ (entry = "parseDate" /\ pc = "done" /\ dateOut # <<>> /\ dateOut[1] # Null)
          => Len(dateOut) = 2
    /\ (dateOut # <<>> /\ IsStr(dateIn) /\ IsoDateShape(dateIn.s))
          => dateOut[1] = dateIn

\* parseDate has been applied to a slash date it rewrote, and to the result
C10_Witness ==
    /\ Len(dateOut) = 2
    /\ IsStr(dateIn)
    /\ IsSlashDate(dateIn.s)
    /\ dateOut[1] # dateIn
    /\ dateOut[2] # Null

(***************************************************************************)
(* Claims about isValidDateOfBirth (SpecDob)                               *)
(***************************************************************************)
\* C11: whatever the processing date and the UTC offset of the process,
\* isValidDateOfBirth accepts the date of birth that is today minus exactly
\* 16 calendar years and rejects the date of birth one day later.
C11_SixteenYearBoundary ==
    (entry = "isValidDateOfBirth" /\ pc = "done") =>
       /\ dateIn = DobAround(today, 0) => verdict = "accept"
       /\ dateIn = DobAround(today, 1) => verdict = "reject"

(***************************************************************************)
(* Claims about grades and references of enrollments (SpecTransform)       *)
(***************************************************************************)
\* the eight grades of the enumeration
EightGrades == {<<"A">>, <<"A", "-">>, <<"B">>, <<"B", "-">>, <<"C">>, <<"C", "-">>,
                <<"D">>, <<"F">>}
\* the grade cell of the enrollment at position j is a non-empty string
HasGradeText(j) == IsStr(rawEnrollments[j].grade) /\ rawEnrollments[j].grade.s # <<>>
\* ... trimmed and in upper case
FoldedGrade(j) == Trim(ToUpperCase(rawEnrollments[j].grade.s))

\* C12: isValidGrade accepts an absent grade, and accepts a grade string
\* exactly when, trimmed and case-folded, it is one of A, A-, B, B-, C, C-, D,
\* F (so "B+" is rejected); every enrollment transformEnrollments emits has a
\* grade that is null or an upper-case member of that set.
C12_GradeInEnumeration ==
    entry = "transformEnrollments" =>
       /\ isValidGrade(Undef) /\ isValidGrade(Null) /\ isValidGrade(Str(<<>>))
       /\ \A j \in 1..Len(rawEnrollments) :
             (Handled(j) /\ HasGradeText(j)) =>
                /\ isValidGrade(rawEnrollments[j].grade) <=> FoldedGrade(j) \in EightGrades
                /\ RejectedWith(j, "Invalid grade") => FoldedGrade(j) \notin EightGrades
                /\ Emitted(j) => FoldedGrade(j) \in EightGrades
       /\ \A k \in 1..Len(cleanEnrollments) :
             \/ cleanEnrollments[k].grade = Null
             \/ /\ IsStr(cleanEnrollments[k].grade)
                /\ cleanEnrollments[k].grade.s \in EightGrades

\* transformEnrollments has rejected a row for its grade B+ and has emitted a
\* row whose grade a- came out as A-
C12_Witness ==
    /\ entry = "transformEnrollments"
    /\ pc = "done"
    /\ \E j \in 1..Len(rawEnrollments) :
          /\ RejectedWith(j, "Invalid grade")
          /\ rawEnrollments[j].grade = Str(<<"B", "+">>)
    /\ \E j \in 1..Len(rawEnrollments) :
          /\ Emitted(j)
          /\ rawEnrollments[j].grade = Str(<<"a", "-">>)
    /\ \E k \in 1..Len(cleanEnrollments) : cleanEnrollments[k].grade = Str(<<"A", "-">>)

\* the normalized student e-mail and the cleaned course code of the enrollment
\* at position j (both cells are strings)
EmailOfRow(j) == Trim(ToLowerCase(rawEnrollments[j].student_email.s))
CourseOfRow(j) == Trim(rawEnrollments[j].course_code.s)
HasReferenceTexts(j) ==
    IsStr(rawEnrollments[j].student_email) /\ IsStr(rawEnrollments[j].course_code)

\* C13: transformEnrollments emits an enrollment only if its normalized
\* student e-mail has an entry in StudentLookup and its cleaned course code is
\* in CourseSet; a row whose e-mail has no entry is rejected with the
\* "Student not found" warning; every emitted enrollment carries a student id
\* taken from StudentLookup and a course id of CourseSet.
C13_EmittedReferencesResolve ==
    entry = "transformEnrollments" =>
       /\ \A j \in 1..Len(rawEnrollments) :
             (Handled(j) /\ HasReferenceTexts(j)) =>
                /\ Emitted(j) => /\ EmailOfRow(j) \in DOMAIN studentMap
                                 /\ CourseOfRow(j) \in courseSet
                /\ EmailOfRow(j) \notin DOMAIN studentMap
                      => RejectedWith(j, "Student not found")
       /\ \A k \in 1..Len(cleanEnrollments) :
             /\ \E e \in DOMAIN studentMap :
                   cleanEnrollments[k].student_id = Num(studentMap[e])
             /\ IsStr(cleanEnrollments[k].course_id)
             /\ cleanEnrollments[k].course_id.s \in courseSet

(***************************************************************************)
(* Claims about the load (SpecLoad)                                        *)
(***************************************************************************)
\* the stored enrollments of the pair of the canonical enrollment p
RowsOfPair(d, p) ==
    {r \in d.enrollment : r.student_id = p.student_id.n /\ r.course_id = p.course_id.s}
OnePerPair ==
    \A r1, r2 \in db.enrollment :
        (r1.student_id = r2.student_id /\ r1.course_id = r2.course_id) => r1 = r2
\* a step of loadEnrollments whose statement was executed
EnrollmentUpserted ==
    /\ pc = "loadEnrollments"
    /\ i <= Len(cleanEnrollments)
    /\ enrollmentWrites' = Append(enrollmentWrites, TRUE)

\* C14: the store never holds two enrollments of one (student_id,
\* course_id); an upsert of loadEnrollments whose pair is already stored
\* changes the grade and enrollment_date of that row to the incoming values
\* and nothing else: its enrollment_id, student_id and course_id, every other
\* enrollment and every other table stay as they were.
C14_EnrollmentUpsertFrame ==
    /\ []OnePerPair
    /\ [][EnrollmentUpserted =>
            LET p == cleanEnrollments[i]
                old == RowsOfPair(db, p)
            IN /\ db'.student = db.student
               /\ db'.department = db.department
               /\ db'.course = db.course
               /\ old # {} =>
                     \E r \in old :
                        db'.enrollment =
                           (db.enrollment \ {r})
                              \cup {[r EXCEPT !.grade = p.grade,
                                              !.enrollment_date = p.enrollment_date.s]}
               /\ old = {} =>
                     \E r \in db'.enrollment :
                        /\ r \notin db.enrollment
                        /\ db'.enrollment = db.enrollment \cup {r}]_vars

\* loadEnrollments has returned after an upsert that changed the grade of the
\* enrollment the store held for student 1 in CS101
C14_Witness ==
    /\ entry = "loadEnrollments"
    /\ pc = "done"
    /\ \E k \in 1..Len(enrollmentWrites) :
          /\ enrollmentWrites[k]
          /\ cleanEnrollments[k].student_id = Num(1)
          /\ cleanEnrollments[k].course_id = Str(CS101)
    /\ \E r \in db.enrollment :
          /\ r.enrollment_id = 1
          /\ r.student_id = 1
          /\ r.course_id = CS101
          /\ r.grade # Str(<<"C">>)

\* the batch and the write history of the running load function
LoadBatch == IF entry = "loadEnrollments" THEN cleanEnrollments ELSE cleanStudents
LoadWrites == IF entry = "loadEnrollments" THEN enrollmentWrites ELSE studentWrites
Succeeded == {k \in 1..Len(LoadWrites) : LoadWrites[k]}
Refused == {k \in 1..Len(LoadWrites) : ~LoadWrites[k]}
\* the record written at position k is in the store
Persisted(k) ==
    IF entry = "loadEnrollments"
    THEN RowsOfPair(db, cleanEnrollments[k]) # {}
    ELSE RowsOfEmail(cleanStudents[k].student_email.s) # {}

\* C15: loadStudents and loadEnrollments write each record on its own: a
\* refused write is recorded in the logger's error list, the records after it
\* are still attempted, the records written before it stay in the store, and
\* the count returned is the number of writes that succeeded, so that count +
\* logged write errors = batch size.
C15_RecordsLoadedIndependently ==
    entry \in {"loadStudents", "loadEnrollments"} =>
       /\ Len(LoadWrites) = i - 1
       /\ loaded = Cardinality(Succeeded)
       /\ Len(stats.errors) = Cardinality(Refused)
       /\ \A k \in Refused :
             \E n \in 1..Len(logs) : logs[n].level = "ERROR" /\ logs[n].ref = k
       /\ \A k \in Succeeded : Persisted(k)
       /\ pc = "done" =>
             /\ result = "returned"
             /\ Len(LoadWrites) = Len(LoadBatch)
             /\ stats.loaded = Cardinality(Succeeded)
             /\ stats.loaded + Len(stats.errors) = Len(LoadBatch)

\* loadStudents has returned after the store refused a record (year 5) and
\* accepted a later one
C15_Witness ==
    /\ entry = "loadStudents"
    /\ pc = "done"
    /\ \E j, k \in 1..Len(studentWrites) :
          /\ j < k
          /\ ~studentWrites[j]
          /\ cleanStudents[j].student_year = Num(5)
          /\ studentWrites[k]

(***************************************************************************)
(* Claims about runETL (Spec)                                              *)
(***************************************************************************)
\* the extraction, getDepartmentMap or getCourseSet has not delivered
LookupsMissing == departmentMap = <<>> \/ courseSet = {}
PipelineFailureLogged ==
    \E n \in 1..Len(logs) :
        logs[n].level = "ERROR" /\ logs[n].message = "ETL Pipeline failed"

\* C16: when the extraction, getDepartmentMap or getCourseSet fails, runETL
\* goes no further: no student and no enrollment is upserted in that run, the
\* failure is logged and runETL ends by rethrowing it.
C16_AbortWithoutLookups ==
    (entry = "runETL" /\ LookupsMissing
        /\ pc \notin {"extract", "getDepartmentMap", "getCourseSet"}) =>
       /\ pc \in {"closeConnection", "summary", "done"}
       /\ result = "thrown"
       /\ PipelineFailureLogged
       /\ studentWrites = <<>>
       /\ enrollmentWrites = <<>>
       /\ cleanStudents = <<>>
       /\ cleanEnrollments = <<>>
       /\ db \in Stores

\* a run with students to load has ended by rethrowing the failure of
\* getCourseSet
C16_Witness ==
    /\ entry = "runETL"
    /\ pc = "done"
    /\ result = "thrown"
    /\ departmentMap # <<>>
    /\ courseSet = {}
    /\ rawStudents # <<>>
    /\ pool = "ended"

(***************************************************************************)
(* Claims about runPendingRegistrations (SpecPending)                      *)
(***************************************************************************)
\* the run has come to its load phase or past it without raising
PendingPastTransform ==
    /\ entry = "runPendingRegistrations"
    /\ result # "thrown"
    /\ pool # "none"
    /\ pc \in {"loadStudents", "getRecordCounts", "closeConnection", "summary", "done"}
TransformerRejected ==
    \E n \in 1..Len(logs) : logs[n].level = "WARN" /\ logs[n].ref > 0

\* C17: in the --pending mode the records the pre-validation accepted go to
\* the load and the verification only: every one of them reaches loadStudents,
\* none is rejected by transformStudents' field validation, and no enrollment
\* is processed.
C17_PendingBypassesTransformer ==
    PendingPastTransform =>
       /\ Len(cleanStudents) = Len(rawStudents)
       /\ ~TransformerRejected
       /\ cleanEnrollments = <<>>
       /\ enrollmentWrites = <<>>

(***************************************************************************)
(* Claims about POST /api/students (SpecApi)                               *)
(***************************************************************************)
\* the request r has been answered, or its handler has raised
Finished(r) == api.requests[r].pc \in {"responded", "closed", "raised"}
StatusOf(r) == api.requests[r].response.code
\* transformStudents applied to the one-record batch of r's body, with the
\* department lookup of the store
TransformerOn(r) ==
    StudentIteration(api.requests[r].body, {}, DepartmentMapOf(db), today, tz)

\* C18: the endpoint applies the transformer's student rules: a payload is
\* inserted (201) exactly when transformStudents emits a student for it, and
\* the inserted values are the emitted ones.  The answers 401, 409 and 500
\* are left aside.
C18_EndpointAgreesWithTransformer ==
    \A r \in Requests :
        (Finished(r) /\ StatusOf(r) \notin {401, 409, 500}) =>
           /\ (StatusOf(r) = 201) <=> (TransformerOn(r).kind = "emit")
           /\ (StatusOf(r) = 201 /\ TransformerOn(r).kind = "emit") =>
                 StudentRow(api.requests[r].response.studentId, TransformerOn(r).out)
                     \in db.student

\* r is valid and authorized, its department has a row, its e-mail was stored
\* when it was received, every statement of it was answered by the store, and
\* it has been answered
DuplicateCase(r) ==
    /\ api.requests[r].pc \in {"responded", "closed"}
    /\ api.requests[r].existed
    /\ ~api.requests[r].outage
    /\ api.requests[r].values.department_id # Undef

DuplicateAnswered ==
    \A r \in Requests :
        DuplicateCase(r) =>
           /\ StatusOf(r) = 409
           /\ api.requests[r].response.errors = <<StudentAlreadyExists>>
           /\ (api.requests[r].pc = "closed" /\ r \in DOMAIN sheet) =>
                 sheet[r].Status = "Registered"

Admitted(r) ==
    /\ api.requests[r].pc \in {"responded", "closed"}
    /\ ~api.requests[r].outage
    /\ api.requests[r].values.department_id # Undef

\* C20: however concurrent requests of one normalized e-mail interleave, at
\* most one student row holds the e-mail, at most one of them is answered 201
\* and every other one is answered 409 'already exists', never 500.
C20_ConcurrentSameEmail ==
    /\ \A row1 \in db.student : \A row2 \in db.student :
          row1.student_email = row2.student_email => row1 = row2
    /\ \A r \in Requests : Admitted(r) => StatusOf(r) \in {201, 409}
    /\ \A r \in Requests : \A q \in Requests :
          (/\ r # q
           /\ Admitted(r) /\ Admitted(q)
           /\ api.requests[r].values.student_email = api.requests[q].values.student_email)
          => ~(StatusOf(r) = 201 /\ StatusOf(q) = 201)

(***************************************************************************)
(* Claims about departments, names and years of students (SpecTransform)   *)
(***************************************************************************)
RawDepartment(st) == JsOr(st.department, st.department_name)
\* v is a string that, lower-cased and trimmed, is an alias of DEPARTMENT_MAP
InAliasTable(v) ==
    /\ IsStr(v)
    /\ \E n \in 1..Len(DEPARTMENT_MAP) : DEPARTMENT_MAP[n][1] = Trim(ToLowerCase(v.s))

\* C21: standardizeDepartment returns null for every name outside the alias
\* table; transformStudents emits a student only if its department is in the
\* table and the canonical name has an entry in the lookup; a name outside the
\* table is rejected as 'Unknown department' and only a canonical name without
\* an entry as 'not in database'.
C21_DepartmentRejections ==
    entry = "transformStudents" =>
        \A j \in 1..Len(rawStudents) :
            Handled(j) =>
                LET raw == RawDepartment(rawStudents[j])
                    std == standardizeDepartment(raw)
                IN /\ ~InAliasTable(raw) => std = Null
                   /\ Emitted(j) => (InAliasTable(raw) /\ std.s \in DOMAIN departmentMap)
                   /\ RejectedWith(j, "Department not in database") => InAliasTable(raw)
                   /\ RejectedWith(j, "Unknown department") => ~InAliasTable(raw)

(***************************************************************************)
(* Claims about two runs of runETL in succession (SpecTwice)               *)
(***************************************************************************)

\* the rows of a table without their generated ids
StudentFacts(d) == {[r EXCEPT !.student_id = 0] : r \in d.student}

EnrollmentFacts(d) == {[r EXCEPT !.enrollment_id = 0] : r \in d.enrollment}

\* both runs returned and no statement of either failed for an outside reason
TwoCleanRuns ==
    /\ entry = "runETL"
    /\ pc = "done"
    /\ Len(runs.ended) = 1
    /\ result = "returned"
    /\ runs.ended[1].result = "returned"
    /\ ~WriteFailedOutside(db, cleanStudents, studentWrites,
                           cleanEnrollments, enrollmentWrites)
    /\ ~WriteFailedOutside(runs.ended[1].db, runs.ended[1].cleanStudents,
                           runs.ended[1].studentWrites, runs.ended[1].cleanEnrollments,
                           runs.ended[1].enrollmentWrites)

NameByPriority(st) ==
    IF Truthy(st.first_name)
    THEN [present |-> TRUE, firstName |-> cleanString(st.first_name),
          lastName |-> JsOr(cleanString(st.last_name), Str(<<>>))]
    ELSE IF Truthy(st.firstName)
    THEN [present |-> TRUE, firstName |-> cleanString(st.firstName),
          lastName |-> JsOr(cleanString(st.lastName), Str(<<>>))]
    ELSE IF Truthy(st.name)
    THEN [present |-> TRUE, firstName |-> parseName(st.name).firstName,
          lastName |-> JsOr(parseName(st.name).lastName, Str(<<>>))]
    ELSE [present |-> FALSE, firstName |-> Null, lastName |-> Null]

RejectedForName(j) ==
    RejectedWith(j, "Missing name") \/ RejectedWith(j, "Missing first name")

\* the position of record j's output in the transformed list
CleanIndex(j) == Cardinality({k \in 1..j : Emitted(k)})

\* C23 as stated: transformStudents rejects a record for its name only if no
\* name shape is present or the first name resolves empty; a record emitted
\* carries the name the priority order gives, the last name being the empty
\* string when it is empty or missing, and a full name is split into its
\* first token and the other tokens joined by single spaces.
C23_NameResolution ==
    entry = "transformStudents" =>
        \A j \in 1..Len(rawStudents) :
            LET want == NameByPriority(rawStudents[j])
            IN /\ RejectedForName(j) => (~want.present \/ ~Truthy(want.firstName))
               /\ Emitted(j) =>
                     /\ cleanStudents[CleanIndex(j)].student_first_name = want.firstName
                     /\ cleanStudents[CleanIndex(j)].student_last_name = want.lastName

\* C24 as stated: every student emitted by transformStudents has a
\* student_year that is an integer between 1 and 4.
C24_EmittedYearIsInteger ==
    entry = "transformStudents" =>
        \A k \in 1..Len(cleanStudents) :
            /\ IsNum(cleanStudents[k].student_year)
            /\ cleanStudents[k].student_year.s = <<>>
            /\ cleanStudents[k].student_year.n \in 1..4

(***************************************************************************)
(* Claims about the API key of POST /api/students (SpecApi)                *)
(***************************************************************************)
\* a key is configured and the request's key is absent or another one
KeyRefused(r) ==
    /\ api.API_SECRET_KEY # ""
    /\ api.requests[r].apiKey = "" \/ api.requests[r].apiKey # api.API_SECRET_KEY

\* the step is taken by the handler of request r
StepOf(r) == api'.requests[r] # api.requests[r]

\* C25: with API_SECRET_KEY configured, a request whose key is absent or
\* differs is answered 401 and never reaches a statement on the store, and
\* every step that changes the store is the INSERT of a request carrying the
\* configured key.
C25_KeyGuardsTheStore ==
    /\ [](\A r \in Requests :
             KeyRefused(r) =>
                 /\ api.requests[r].pc \in {"sent", "responded", "closed"}
                 /\ api.requests[r].pc # "sent" => StatusOf(r) = 401
                 /\ api.requests[r].values = NoValues)
    /\ [][/\ \A r \in Requests : (KeyRefused(r) /\ StepOf(r)) => db' = db
          /\ (db' # db /\ api.API_SECRET_KEY # "") =>
                 \E r \in Requests :
                     /\ StepOf(r)
                     /\ api.requests[r].pc = "insertStudent"
                     /\ api.requests[r].apiKey = api.API_SECRET_KEY]_vars

\* a key is configured; a request with another key has been answered 401 and
\* a request with the configured key has inserted a row
C25_Witness ==
    /\ api.API_SECRET_KEY # ""
    /\ \E r \in Requests :
          /\ KeyRefused(r)
          /\ api.requests[r].apiKey # ""
          /\ api.requests[r].pc = "responded"
          /\ StatusOf(r) = 401
    /\ \E r \in Requests :
          /\ ~KeyRefused(r)
          /\ api.requests[r].pc = "responded"
          /\ StatusOf(r) = 201

(***************************************************************************)
(* Claims about the Status cell of a sheet row (SpecSheet)                 *)
(***************************************************************************)
\* the invocation has gone past processNewStudent's two early returns
Processing(t) == triggers[t].processed \/ triggers[t].pc # "returned"

\* C26 as stated: once the Status cell of a row has held 'Registered' it
\* stays 'Registered', and every handleEdit invocation of a later edit of the
\* row returns without calling the API, sending mail or writing the Status and
\* Error cells; an invocation that finds the status 'Error' or 'Invalid'
\* processes the row again.
C26_RegisteredIsAbsorbing ==
    /\ \A row \in DOMAIN sheet :
           (entry = "handleEdit" /\ sheet[row].registered) =>
               sheet[row].Status = "Registered"
    /\ \A t \in Triggers : triggers[t].late => ~Processing(t)
    /\ \A t \in Triggers :
           triggers[t].previousStatus \in {"Error", "Invalid"} => Processing(t)

(***************************************************************************)
(* Claims about upsertHappinessData (SpecSync)                             *)
(***************************************************************************)
\* upsertHappinessData has settled, after inserting its entry
SyncSettled == sync.pc \in {"done", "read"} /\ sync.syncId # 0
SyncEntry == sync.log[sync.syncId]
EveryUpsertSucceeded ==
    /\ Len(sync.upserts) = Len(sync.records)
    /\ \A k \in 1..Len(sync.upserts) : sync.upserts[k]
UpsertedBeforeFailure == Cardinality({k \in 1..Len(sync.upserts) : sync.upserts[k]})

\* "2019" after the first n records have been upserted in turn
RECURSIVE TableAfter(_)
TableAfter(n) ==
    IF n = 0 THEN Table2019 ELSE Upsert2019(TableAfter(n - 1), sync.records[n])

\* C27 as stated: the entry of the call is 'running' until the call
\* settles; it ends 'success' with records_processed the number of input
\* records exactly when every upsert succeeded; when an upsert fails it ends
\* 'failed' with records_processed the number of records upserted before the
\* failure, those upserts stay in "2019", the error of the upsert is rethrown
\* and getLastSyncTime does not return the time of the failed entry.
C27_SyncLogOutcome ==
    /\ (sync.pc \in {"upsert", "logSuccess", "logFailed"}) =>
           SyncEntry.status = "running"
    /\ SyncSettled =>
          /\ (SyncEntry.status = "success"
                  /\ SyncEntry.records_processed = Len(sync.records))
             <=> EveryUpsertSucceeded
          /\ ~EveryUpsertSucceeded =>
                /\ SyncEntry.status = "failed"
                /\ SyncEntry.records_processed = UpsertedBeforeFailure
                /\ sync.table = TableAfter(UpsertedBeforeFailure)
                /\ sync.thrown = "upsert failed"
                /\ sync.returned = -1
                /\ sync.pc = "read" =>
                       sync.lastSync = getLastSyncTime(SubSeq(sync.log, 1, sync.syncId - 1),
                                                       "2019")

RejectedBeforeLoad ==
    (Len(runs.files.students) - Len(cleanStudents))
    + (Len(runs.files.enrollments) - Len(cleanEnrollments))

\* C29: when a run of either mode has returned and printed its summary,
\* stats.skipped is the number of input records rejected before the load and
\* stats.transformed is the number of records the transformers emitted.
C29_SummaryCounts ==
    (pc = "done" /\ result = "returned" /\ runs.ended = <<>>)
    => /\ stats.skipped = RejectedBeforeLoad
       /\ stats.transformed = Len(cleanStudents) + Len(cleanEnrollments)

\* the same, for the runs whose warnings all come from the transformers: a
\* standard run, or a pending run whose entries are all valid and not none
C29_TransformerWarningsOnly ==
    (pc = "done" /\ result = "returned" /\ runs.ended = <<>>
     /\ (entry = "runPendingRegistrations"
         => /\ validatePendingRegistrations(runs.files.students).invalid = <<>>
            /\ runs.files.students # <<>>))
    => /\ stats.skipped = RejectedBeforeLoad
       /\ stats.transformed = Len(cleanStudents) + Len(cleanEnrollments)

(***************************************************************************)
(* Claims about the count reported by runPendingRegistrations (SpecPending) *)
(***************************************************************************)
\* the writes of loadStudents that the store executed in this run
PersistedByLoadStudents ==
    Cardinality({k \in 1..Len(studentWrites) : studentWrites[k]})

\* the run has printed its success message and ended
ReportedAndEnded ==
    /\ entry = "runPendingRegistrations"
    /\ pc = "done"
    /\ result = "returned"
    /\ rawStudents # <<>>

\* C30: in --pending mode the number of students the run reports as
\* successfully registered is the number of students loadStudents persisted
\* in that run.
C30_ReportedIsPersisted ==
    ReportedAndEnded => RegisteredReported = PersistedByLoadStudents

\* the count loadStudents itself adds to the summary is the number persisted
C30_LoadedIsPersisted ==
    ReportedAndEnded => stats.loaded = PersistedByLoadStudents

=============================================================================
